---- MODULE Spec2Model ----
(***************************************************************************)
(* Workflow execution and branching engine of cadma-flow-api.             *)
(*                                                                         *)
(* The persistent store (Django ORM, autocommit: every create/save is     *)
(* durable on its own) is modelled by one variable per table.  Identifiers*)
(* built with f-strings ("{id}-var-{ts}", "{id}-{counter}") are sequences *)
(* of tokens; joining the tokens with "-" gives the string of the code.   *)
(***************************************************************************)
EXTENDS Integers, Sequences, FiniteSets, TLC

VARIABLES now,          \* wall clock in whole seconds (timezone.now())
          workflows,    \* Workflow rows, keyed by key
          branches,     \* WorkflowBranch rows, keyed by branch_id
          executions,   \* WorkflowExecution rows, keyed by execution_id
          steps,        \* StepExecution rows (set of records with pk)
          selections,   \* DataSelection rows (set of records)
          events,       \* WorkflowEvent rows in insertion order
          families,     \* MolecularFamily.members, keyed by family_id
          nextPk,       \* next auto-increment pk of StepExecution
          records,      \* molecular data records: in-memory object and stored row
          objects,      \* WorkflowExecution objects held by the caller
          calls,        \* id-choosing calls in flight, one per process
          ops,          \* number of calls made so far
          lastOp,       \* the call that produced the current state
          pre           \* the store as it was before that call

vars == <<now, workflows, branches, executions, steps, selections, events, families,
          nextPk, records, objects, calls, ops, lastOp, pre>>

-----------------------------------------------------------------------------
(* Bounds of the model *)
MaxNow == 1
MaxSelectOps == 3
MaxBranchOps == 2

(* Program constants *)
SecondsPerDay == 86400

NoId == <<>>
NoTime == -1

PENDING == "PENDING"
RUNNING == "RUNNING"
COMPLETED == "COMPLETED"
FAILED == "FAILED"

Molecules == {"m1", "m2"}
Properties == {"logp", "toxicity"}
FamilyIds == {"fam1"}
StepIds == {"s0", "s1"}

(* order attribute of the step classes used to drive the engine *)
StepOrder(step_id) == IF step_id = "s0" THEN 0 ELSE 1

(* Molecular data records available for selection: concrete class name,   *)
(* record id, owning molecule and logical property name.                  *)
Variants ==
    { [data_id |-> "d1", data_class |-> "LogPData",     molecule |-> "m1", property_name |-> "logp"],
      [data_id |-> "d2", data_class |-> "LogPData",     molecule |-> "m1", property_name |-> "logp"],
      [data_id |-> "d3", data_class |-> "ToxicityData", molecule |-> "m1", property_name |-> "toxicity"],
      [data_id |-> "d4", data_class |-> "LogPData",     molecule |-> "m2", property_name |-> "logp"] }

-----------------------------------------------------------------------------
(* The store (and the live data record objects) as one value, so that *)
(* operations compose as functions.                                   *)
DB == [workflows |-> workflows, branches |-> branches, executions |-> executions,
       steps |-> steps, selections |-> selections, events |-> events,
       families |-> families, nextPk |-> nextPk, records |-> records, objects |-> objects,
       calls |-> calls]

SetDB(db) ==
    /\ workflows' = db.workflows
    /\ branches' = db.branches
    /\ executions' = db.executions
    /\ steps' = db.steps
    /\ selections' = db.selections
    /\ events' = db.events
    /\ families' = db.families
    /\ nextPk' = db.nextPk
    /\ records' = db.records
    /\ objects' = db.objects
    /\ calls' = db.calls

(* strftime('%Y%m%d%H%M%S'): one token per clock second *)
StampYmdHMS(t) == ToString(t)

(* strftime('%H%M%S'): the time of day, the date is dropped *)
StampHMS(t) == ToString(t % SecondsPerDay)

(* int(timezone.now().timestamp()) *)
StampEpoch(t) == ToString(t)

(* Fault: the candidate is taken as requested, without the existence loop *)
SuffixLoop_unchecked(base, candidate, i, used) == [candidate |-> candidate, i |-> i]

(* while X.objects.filter(id=candidate).exists(): i += 1; candidate = f"{base}-{i}" *)
RECURSIVE SuffixLoop(_, _, _, _)
SuffixLoop(base, candidate, i, used) ==
    IF candidate \in used
    THEN SuffixLoop(base, Append(base, ToString(i + 1)), i + 1, used)
    ELSE [candidate |-> candidate, i |-> i]

-----------------------------------------------------------------------------
(* WorkflowExecution.log_event *)
log_event(db, t, e, event_type, details) ==
    [db EXCEPT !.events = Append(@, [execution |-> e, event_type |-> event_type,
                                      details |-> details, created_at |-> t])]

(* the sequences .order_by("created_at") can return for the rows at the  *)
(* positions S of the event table: ascending created_at, rows of equal   *)
(* created_at in any order                                               *)
RECURSIVE OrderByCreatedAt(_, _)
OrderByCreatedAt(db, S) ==
    IF S = {} THEN {<<>>}
    ELSE LET first == { i \in S : \A j \in S : db.events[i].created_at <= db.events[j].created_at }
         IN UNION { { <<db.events[i]>> \o rest : rest \in OrderByCreatedAt(db, S \ {i}) }
                    : i \in first }

(* WorkflowExecution.timeline: the set of lists the call can return *)
timeline(db, e) ==
    LET mine == { i \in 1..Len(db.events) : db.events[i].execution = e }
        values(r) == [event_type |-> r.event_type, details |-> r.details,
                      created_at |-> r.created_at]
    IN { [k \in 1..Len(rows) |-> values(rows[k])] : rows \in OrderByCreatedAt(db, mine) }

(* Fault: on a key present on both sides the parent's preference is kept *)
fork_parent_wins(db, b, new_branch_id, name, preference_overrides) ==
    LET parent == db.branches[b]
        prefs == parent.data_selection_preferences @@ preference_overrides
        candidate == SuffixLoop(new_branch_id, new_branch_id, 0, DOMAIN db.branches).candidate
        row == [workflow |-> parent.workflow,
                name |-> name,
                parent_branch |-> b,
                data_selection_preferences |-> prefs]
    IN [db |-> [db EXCEPT !.branches = (candidate :> row) @@ @], ret |-> candidate]

(* WorkflowBranch.fork *)
fork(db, b, new_branch_id, name, preference_overrides) ==
    LET parent == db.branches[b]
        prefs == preference_overrides @@ parent.data_selection_preferences
        candidate == SuffixLoop(new_branch_id, new_branch_id, 0, DOMAIN db.branches).candidate
        row == [workflow |-> parent.workflow,
                name |-> name,
                parent_branch |-> b,
                data_selection_preferences |-> prefs]
    IN [db |-> [db EXCEPT !.branches = (candidate :> row) @@ @], ret |-> candidate]

(* Fault: the new blueprint takes the blueprint it is branched from as root *)
branch_rooted_at_parent(db, t, w, branch_label) ==
    LET base == w \o <<"br", StampEpoch(t)>>
        candidate == SuffixLoop(base, base, 0, DOMAIN db.workflows).candidate
        row == [branch_of |-> w,
                root_branch |-> w,
                branch_label |-> IF branch_label # NoId THEN branch_label
                                 ELSE <<"branch", StampYmdHMS(t)>>]
    IN [db |-> [db EXCEPT !.workflows = (candidate :> row) @@ @], ret |-> candidate]

(* Workflow.branch *)
branch(db, t, w, branch_label) ==
    LET self == db.workflows[w]
        base == w \o <<"br", StampEpoch(t)>>
        candidate == SuffixLoop(base, base, 0, DOMAIN db.workflows).candidate
        row == [branch_of |-> w,
                root_branch |-> IF self.root_branch # NoId THEN self.root_branch ELSE w,
                branch_label |-> IF branch_label # NoId THEN branch_label
                                 ELSE <<"branch", StampYmdHMS(t)>>]
    IN [db |-> [db EXCEPT !.workflows = (candidate :> row) @@ @], ret |-> candidate]


(* Fault: a fork that moves the source execution onto the target branch   *)
(* (self.branch = target_branch; self.save()) besides creating the clone. *)
fork_execution_moving_source(db, t, e, new_execution_id, target_branch) ==
    LET self == db.executions[e]
        clone == [workflow |-> self.workflow,
                  branch |-> target_branch,
                  families |-> self.families,
                  family_data_config |-> self.family_data_config,
                  status |-> PENDING,
                  current_step |-> "",
                  current_step_index |-> 0,
                  parent_execution |-> e,
                  branch_label |-> target_branch]
        created == [db EXCEPT !.executions =
                        (new_execution_id :> clone) @@ [@ EXCEPT ![e].branch = target_branch]]
    IN IF new_execution_id \in DOMAIN db.executions
       THEN [db |-> db, raised |-> TRUE, ret |-> NoId]
       ELSE [db |-> log_event(created, t, new_execution_id, "FORK",
                              [from |-> e, to_branch |-> target_branch]),
             raised |-> FALSE, ret |-> new_execution_id]

(* Fault: a fork that keeps the source's branch (branch=self.branch)      *)
(* instead of binding the clone to target_branch.                         *)
fork_execution_on_source_branch(db, t, e, new_execution_id, target_branch) ==
    LET self == db.executions[e]
        clone == [workflow |-> self.workflow,
                  branch |-> self.branch,
                  families |-> self.families,
                  family_data_config |-> self.family_data_config,
                  status |-> PENDING,
                  current_step |-> "",
                  current_step_index |-> 0,
                  parent_execution |-> e,
                  branch_label |-> target_branch]
        created == [db EXCEPT !.executions = (new_execution_id :> clone) @@ @]
    IN IF new_execution_id \in DOMAIN db.executions
       THEN [db |-> db, raised |-> TRUE, ret |-> NoId]
       ELSE [db |-> log_event(created, t, new_execution_id, "FORK",
                              [from |-> e, to_branch |-> target_branch]),
             raised |-> FALSE, ret |-> new_execution_id]

(* Fault: the FORK event is appended to the log of the execution being forked *)
fork_execution_logging_on_source(db, t, e, new_execution_id, target_branch) ==
    LET self == db.executions[e]
        clone == [workflow |-> self.workflow,
                  branch |-> target_branch,
                  families |-> self.families,
                  family_data_config |-> self.family_data_config,
                  status |-> PENDING,
                  current_step |-> "",
                  current_step_index |-> 0,
                  parent_execution |-> e,
                  branch_label |-> target_branch]
        created == [db EXCEPT !.executions = (new_execution_id :> clone) @@ @]
    IN IF new_execution_id \in DOMAIN db.executions
       THEN [db |-> db, raised |-> TRUE, ret |-> NoId]
       ELSE [db |-> log_event(created, t, e, "FORK",
                              [from |-> e, to_branch |-> target_branch]),
             raised |-> FALSE, ret |-> new_execution_id]

(* Fault: the clone is hung under the parent of the source *)
fork_execution_under_grandparent(db, t, e, new_execution_id, target_branch) ==
    LET self == db.executions[e]
        clone == [workflow |-> self.workflow,
                  branch |-> target_branch,
                  families |-> self.families,
                  family_data_config |-> self.family_data_config,
                  status |-> PENDING,
                  current_step |-> "",
                  current_step_index |-> 0,
                  parent_execution |-> self.parent_execution,
                  branch_label |-> target_branch]
        created == [db EXCEPT !.executions = (new_execution_id :> clone) @@ @]
    IN IF new_execution_id \in DOMAIN db.executions
       THEN [db |-> db, raised |-> TRUE, ret |-> NoId]
       ELSE [db |-> log_event(created, t, new_execution_id, "FORK",
                              [from |-> e, to_branch |-> target_branch]),
             raised |-> FALSE, ret |-> new_execution_id]

(* WorkflowExecution.fork_execution; a taken execution_id violates the    *)
(* unique constraint and objects.create raises IntegrityError.            *)
fork_execution(db, t, e, new_execution_id, target_branch) ==
    LET self == db.executions[e]
        clone == [workflow |-> self.workflow,
                  branch |-> target_branch,
                  families |-> self.families,
                  family_data_config |-> self.family_data_config,
                  status |-> PENDING,
                  current_step |-> "",
                  current_step_index |-> 0,
                  parent_execution |-> e,
                  branch_label |-> target_branch]
        created == [db EXCEPT !.executions = (new_execution_id :> clone) @@ @]
    IN IF new_execution_id \in DOMAIN db.executions
       THEN [db |-> db, raised |-> TRUE, ret |-> NoId]
       ELSE [db |-> log_event(created, t, new_execution_id, "FORK",
                              [from |-> e, to_branch |-> target_branch]),
             raised |-> FALSE, ret |-> new_execution_id]

(* the existence check of _auto_fork_if_impacts_completed_steps: a COMPLETED *)
(* snapshot of the execution whose input_properties contains the property  *)
impacted_exists(db, e, property_name) ==
    \E se \in db.steps :
        /\ se.execution = e
        /\ se.status = COMPLETED
        /\ \E i \in 1..Len(se.input_properties) : se.input_properties[i] = property_name


(* Fault: the clones keep the branch of the entry they copy (branch=sel.branch) *)
clone_selections_keeping_branch(db, t, e, new_exec, new_branch) ==
    LET clones == { [execution |-> new_exec, branch |-> sel.branch,
                     molecule |-> sel.molecule, property_name |-> sel.property_name,
                     data_class |-> sel.data_class, data_id |-> sel.data_id,
                     selected_at |-> t] :
                    sel \in { s \in db.selections : s.execution = e } }
    IN [db EXCEPT !.selections = @ \cup clones]

(* the loop of _auto_fork_if_impacts_completed_steps over self.data_selections.all() *)
clone_selections(db, t, e, new_exec, new_branch) ==
    LET clones == { [execution |-> new_exec, branch |-> new_branch,
                     molecule |-> sel.molecule, property_name |-> sel.property_name,
                     data_class |-> sel.data_class, data_id |-> sel.data_id,
                     selected_at |-> t] :
                    sel \in { s \in db.selections : s.execution = e } }
    IN [db EXCEPT !.selections = @ \cup clones]

(* WorkflowExecution._auto_fork_if_impacts_completed_steps *)
_auto_fork_if_impacts_completed_steps(db, t, e, property_name) ==
    LET self == db.executions[e]
        suffix == StampYmdHMS(t)
        new_branch_id == self.branch \o <<"var", suffix>>
        forked == fork(db, self.branch, new_branch_id, <<"Variant", suffix>>, <<>>)
        new_branch == forked.ret
        new_exec_id == e \o <<"var", suffix>>
        fe == fork_execution(forked.db, t, e, new_exec_id, new_branch)
        new_exec == fe.ret
        cloned == clone_selections(fe.db, t, e, new_exec, new_branch)
    IN IF ~impacted_exists(db, e, property_name)
       THEN [db |-> db, raised |-> FALSE, forked |-> FALSE, new_branch |-> NoId, new_exec |-> NoId]
       ELSE IF fe.raised
       THEN [db |-> fe.db, raised |-> TRUE, forked |-> FALSE, new_branch |-> new_branch, new_exec |-> NoId]
       ELSE [db |-> log_event(cloned, t, e, "AUTO_FORK",
                              [property |-> property_name, new_branch |-> new_branch,
                               new_execution |-> new_exec]),
             raised |-> FALSE, forked |-> TRUE, new_branch |-> new_branch, new_exec |-> new_exec]


(* Fault: the lookup leaves property_name out of the key, so one entry    *)
(* per (execution, branch, molecule) is kept.                             *)
update_or_create_per_molecule(db, t, e, b, molecule, property_name, data_instance) ==
    LET Match(s) == /\ s.execution = e
                    /\ s.branch = b
                    /\ s.molecule = molecule
        existing == { s \in db.selections : Match(s) }
        created == existing = {}
        ds == IF created
              THEN [execution |-> e, branch |-> b, molecule |-> molecule,
                    property_name |-> property_name,
                    data_class |-> data_instance.data_class,
                    data_id |-> data_instance.data_id,
                    selected_at |-> t]
              ELSE [(CHOOSE s \in existing : TRUE) EXCEPT
                        !.property_name = property_name,
                        !.data_class = data_instance.data_class,
                        !.data_id = data_instance.data_id]
    IN [db |-> [db EXCEPT !.selections = (@ \ existing) \cup {ds}], ds |-> ds, created |-> created]

(* DataSelection.objects.update_or_create keyed by (execution, branch,    *)
(* molecule, property_name); selected_at is auto_now_add.                 *)
update_or_create(db, t, e, b, molecule, property_name, data_instance) ==
    LET Match(s) == /\ s.execution = e
                    /\ s.branch = b
                    /\ s.molecule = molecule
                    /\ s.property_name = property_name
        existing == { s \in db.selections : Match(s) }
        created == existing = {}
        ds == IF created
              THEN [execution |-> e, branch |-> b, molecule |-> molecule,
                    property_name |-> property_name,
                    data_class |-> data_instance.data_class,
                    data_id |-> data_instance.data_id,
                    selected_at |-> t]
              ELSE [(CHOOSE s \in existing : TRUE) EXCEPT
                        !.data_class = data_instance.data_class,
                        !.data_id = data_instance.data_id]
    IN [db |-> [db EXCEPT !.selections = (@ \ existing) \cup {ds}], ds |-> ds, created |-> created]

(* names of the concrete data classes registered at import time *)
SUBCLASS_REGISTRY == {"LogPData", "ToxicityData", "AbsorptionData", "MutagenicityData"}

(* the value standing for a None result of a record lookup *)
NoRecord == [data_id |-> "", data_class |-> "", molecule |-> "", property_name |-> ""]

(* WorkflowExecution.get_selected_property: the set of values the call can  *)
(* return (.order_by('-selected_at').first() is free to pick among entries  *)
(* of equal selected_at)                                                    *)
get_selected_property(db, e, molecule, property_name) ==
    LET self == db.executions[e]
        exact == { s \in db.selections : /\ s.execution = e
                                         /\ s.branch = self.branch
                                         /\ s.molecule = molecule
                                         /\ s.property_name = property_name }
        any_branch == { s \in db.selections : /\ s.execution = e
                                              /\ s.molecule = molecule
                                              /\ s.property_name = property_name }
        latest == { s \in any_branch : \A o \in any_branch : o.selected_at <= s.selected_at }
        found == IF exact # {} THEN exact ELSE latest
        Resolve(ds) ==
            LET of_class == { v \in Variants : v.data_class = ds.data_class /\ v.data_id = ds.data_id }
                scanned == { v \in Variants : v.data_class \in SUBCLASS_REGISTRY /\ v.data_id = ds.data_id }
            IN IF ds.data_class \notin SUBCLASS_REGISTRY THEN {NoRecord}
               ELSE IF of_class # {} THEN of_class
               ELSE IF scanned # {} THEN scanned
               ELSE {NoRecord}
    IN IF found = {} THEN {NoRecord}
       ELSE UNION { Resolve(ds) : ds \in found }

(* Fault: the selection event is logged after the automatic fork *)
select_property_variant_logging_last(db, t, e, molecule, property_name, data_instance) ==
    LET self == db.executions[e]
        up == update_or_create(db, t, e, self.branch, molecule, property_name, data_instance)
        af == _auto_fork_if_impacts_completed_steps(up.db, t, e, property_name)
    IN [af EXCEPT !.db = log_event(af.db, t, e, "DATA_SELECTION_CHANGED",
                                   [molecule |-> molecule, property |-> property_name,
                                    data_class |-> up.ds.data_class, data_id |-> up.ds.data_id,
                                    created |-> up.created])]

(* WorkflowExecution.select_property_variant *)
select_property_variant(db, t, e, molecule, property_name, data_instance) ==
    LET self == db.executions[e]
        up == update_or_create(db, t, e, self.branch, molecule, property_name, data_instance)
        logged == log_event(up.db, t, e, "DATA_SELECTION_CHANGED",
                            [molecule |-> molecule, property |-> property_name,
                             data_class |-> up.ds.data_class, data_id |-> up.ds.data_id,
                             created |-> up.created])
    IN _auto_fork_if_impacts_completed_steps(logged, t, e, property_name)

-----------------------------------------------------------------------------
(* StepExecution.objects.create: the row gets the next auto-increment pk *)
StepExecution_create(db, row) ==
    [db EXCEPT !.steps = @ \cup {[row EXCEPT !.pk = db.nextPk]},
               !.nextPk = @ + 1]

(* a StepExecution row with the model's field defaults *)
StepExecutionRow(e, step_id, order) ==
    [pk |-> 0, execution |-> e, step_id |-> step_id, order |-> order,
     input_data_snapshot |-> <<>>, data_retrieval_methods |-> <<>>,
     results |-> <<>>, status |-> PENDING,
     started_at |-> NoTime, completed_at |-> NoTime, data_frozen_at |-> NoTime,
     input_signature |-> "", input_properties |-> <<>>, providers_used |-> <<>>]

(* StepExecution.save(): the in-memory object overwrites its row *)
StepExecution_save(db, obj) ==
    [db EXCEPT !.steps = { s \in @ : s.pk # obj.pk } \cup {obj}]

(* Fault: the snapshot lists the families without their members *)
freeze_family_data_without_members(db, e) ==
    [f \in db.executions[e].families |-> {}]

(* WorkflowExecution.freeze_family_data *)
freeze_family_data(db, e) ==
    [f \in db.executions[e].families |-> db.families[f]]

(* WorkflowExecution.start_step *)
start_step(db, t, e, step_id, order, frozen_snapshot, retrieval_methods) ==
    LET row == [StepExecutionRow(e, step_id, order) EXCEPT
                    !.input_data_snapshot = frozen_snapshot,
                    !.data_retrieval_methods = retrieval_methods,
                    !.status = RUNNING,
                    !.started_at = t,
                    !.data_frozen_at = t]
    IN [db |-> StepExecution_create(db, row), ret |-> [row EXCEPT !.pk = db.nextPk]]

(* Fault: the cursor index is set to the step's own order *)
complete_step_off_by_one(db, t, e, step_exec, results) ==
    LET obj == [step_exec EXCEPT !.results = results, !.status = COMPLETED, !.completed_at = t]
        saved == StepExecution_save(db, obj)
        advanced == [saved EXCEPT !.executions[e].current_step = obj.step_id,
                                  !.executions[e].current_step_index = obj.order]
    IN log_event(advanced, t, e, "STEP_COMPLETED", [step_id |-> obj.step_id])

(* WorkflowExecution.complete_step *)
complete_step(db, t, e, step_exec, results) ==
    LET obj == [step_exec EXCEPT !.results = results, !.status = COMPLETED, !.completed_at = t]
        saved == StepExecution_save(db, obj)
        advanced == [saved EXCEPT !.executions[e].current_step = obj.step_id,
                                  !.executions[e].current_step_index = obj.order + 1]
    IN log_event(advanced, t, e, "STEP_COMPLETED", [step_id |-> obj.step_id])

(* Fault: a failure moves the execution cursor like a completion does *)
mark_failed_advancing(db, t, step_exec, message) ==
    LET obj == [step_exec EXCEPT !.status = FAILED, !.results = [error |-> message],
                                 !.completed_at = t]
        saved == StepExecution_save(db, obj)
        advanced == [saved EXCEPT !.executions[obj.execution].current_step = obj.step_id,
                                  !.executions[obj.execution].current_step_index = obj.order + 1]
    IN log_event(advanced, t, obj.execution, "STEP_FAILED",
                 [step_id |-> obj.step_id, error |-> message])

(* StepExecution.mark_failed *)
mark_failed(db, t, step_exec, message) ==
    LET obj == [step_exec EXCEPT !.status = FAILED, !.results = [error |-> message],
                                 !.completed_at = t]
    IN log_event(StepExecution_save(db, obj), t, obj.execution, "STEP_FAILED",
                 [step_id |-> obj.step_id, error |-> message])

(* .order_by('order'): the rows of S as a sequence, ties in insertion order *)
RECURSIVE OrderBy(_)
OrderBy(S) ==
    IF S = {} THEN <<>>
    ELSE LET first == CHOOSE s \in S : \A o \in S :
                          \/ s.order < o.order
                          \/ (s.order = o.order /\ s.pk <= o.pk)
         IN <<first>> \o OrderBy(S \ {first})


(* Fault: the clone loop copies the snapshot but not its provenance       *)
(* fields (input_signature, input_properties, providers_used).            *)
RECURSIVE CloneSteps_without_provenance(_, _, _)
CloneSteps_without_provenance(db, new_exec, ses) ==
    IF ses = <<>> THEN db
    ELSE LET se == Head(ses)
             row == [StepExecutionRow(new_exec, se.step_id, se.order) EXCEPT
                        !.input_data_snapshot = se.input_data_snapshot,
                        !.data_retrieval_methods = se.data_retrieval_methods,
                        !.results = se.results,
                        !.status = COMPLETED,
                        !.started_at = se.started_at,
                        !.completed_at = se.completed_at,
                        !.data_frozen_at = se.data_frozen_at]
         IN CloneSteps_without_provenance(StepExecution_create(db, row), new_exec, Tail(ses))

(* the loop of branch_execution that clones the COMPLETED snapshots *)
RECURSIVE CloneSteps(_, _, _)
CloneSteps(db, new_exec, ses) ==
    IF ses = <<>> THEN db
    ELSE LET se == Head(ses)
             row == [StepExecutionRow(new_exec, se.step_id, se.order) EXCEPT
                        !.input_data_snapshot = se.input_data_snapshot,
                        !.data_retrieval_methods = se.data_retrieval_methods,
                        !.results = se.results,
                        !.status = COMPLETED,
                        !.started_at = se.started_at,
                        !.completed_at = se.completed_at,
                        !.data_frozen_at = se.data_frozen_at,
                        !.input_signature = se.input_signature,
                        !.input_properties = se.input_properties,
                        !.providers_used = se.providers_used]
         IN CloneSteps(StepExecution_create(db, row), new_exec, Tail(ses))

(* WorkflowExecution.branch_execution up to the choice of the execution *)
(* id: the blueprint and the branch are created, the id loops have run  *)
branch_execution_ids(db, t, e, branch_label) ==
    LET self == db.executions[e]
        wf == branch(db, t, self.workflow, branch_label)
        new_wf == wf.ret
        new_wf_label == wf.db.workflows[new_wf].branch_label
        ts == StampHMS(t)
        base_branch_id == self.branch \o <<"br", ts>>
        bl == SuffixLoop(base_branch_id, base_branch_id, 0, DOMAIN wf.db.branches)
        fk == fork(wf.db, self.branch, bl.candidate, new_wf_label, <<>>)
        base_exec_id == e \o <<"br", ts>>
        el == SuffixLoop(base_exec_id, base_exec_id, bl.i, DOMAIN fk.db.executions)
    IN [db |-> fk.db, new_wf |-> new_wf, new_wf_label |-> new_wf_label,
        new_branch |-> fk.ret, new_exec_id |-> el.candidate]

(* WorkflowExecution.branch_execution from objects.create of the new *)
(* execution on                                                       *)
branch_execution_create(db, t, e, ids) ==
    LET self == db.executions[e]
        new_exec_id == ids.new_exec_id
        row == [workflow |-> ids.new_wf,
                branch |-> ids.new_branch,
                families |-> self.families,
                family_data_config |-> self.family_data_config,
                status |-> PENDING,
                current_step |-> "",
                current_step_index |-> 0,
                parent_execution |-> e,
                branch_label |-> ids.new_wf_label]
        created == [db EXCEPT !.executions = (new_exec_id :> row) @@ @]
        completed == { se \in db.steps : se.execution = e /\ se.status = COMPLETED }
        cloned == CloneSteps(created, new_exec_id, OrderBy(completed))
        indexed == [cloned EXCEPT !.executions[new_exec_id].current_step_index =
                                        self.current_step_index]
    IN [db |-> log_event(indexed, t, e, "EXEC_BRANCH_CREATED", [new_execution |-> new_exec_id]),
        ret |-> new_exec_id, new_branch |-> ids.new_branch, new_workflow |-> ids.new_wf]

(* WorkflowExecution.branch_execution *)
branch_execution(db, t, e, branch_label) ==
    LET ids == branch_execution_ids(db, t, e, branch_label)
    IN branch_execution_create(ids.db, t, e, ids)

(* Fault: the truncation uses order__gte, dropping step N itself *)
rewind_to_exclusive(db, t, e, step_order) ==
    LET be == branch_execution(db, t, e, <<"rewind-to", ToString(step_order)>>)
        new_exec == be.ret
        deleted == [be.db EXCEPT !.steps =
                        { s \in @ : ~(s.execution = new_exec /\ s.order >= step_order) }]
        indexed == [deleted EXCEPT !.executions[new_exec].current_step_index = step_order + 1]
    IN [db |-> log_event(indexed, t, e, "REWIND",
                         [from_execution |-> e, rewind_to |-> step_order,
                          new_execution |-> new_exec]),
        ret |-> new_exec, new_branch |-> be.new_branch, new_workflow |-> be.new_workflow]

(* Fault: the truncation filters StepExecution by order only, so the      *)
(* later steps of the source are deleted with those of the new execution. *)
rewind_to_deleting_everywhere(db, t, e, step_order) ==
    LET be == branch_execution(db, t, e, <<"rewind-to", ToString(step_order)>>)
        new_exec == be.ret
        deleted == [be.db EXCEPT !.steps = { s \in @ : ~(s.order > step_order) }]
        indexed == [deleted EXCEPT !.executions[new_exec].current_step_index = step_order + 1]
    IN [db |-> log_event(indexed, t, e, "REWIND",
                         [from_execution |-> e, rewind_to |-> step_order,
                          new_execution |-> new_exec]),
        ret |-> new_exec, new_branch |-> be.new_branch, new_workflow |-> be.new_workflow]

(* WorkflowExecution.rewind_to *)
rewind_to(db, t, e, step_order) ==
    LET be == branch_execution(db, t, e, <<"rewind-to", ToString(step_order)>>)
        new_exec == be.ret
        deleted == [be.db EXCEPT !.steps =
                        { s \in @ : ~(s.execution = new_exec /\ s.order > step_order) }]
        indexed == [deleted EXCEPT !.executions[new_exec].current_step_index = step_order + 1]
    IN [db |-> log_event(indexed, t, e, "REWIND",
                         [from_execution |-> e, rewind_to |-> step_order,
                          new_execution |-> new_exec]),
        ret |-> new_exec, new_branch |-> be.new_branch, new_workflow |-> be.new_workflow]


-----------------------------------------------------------------------------
(* Python values handled by the data records: floats n.0, ints n, strings *)
PyFloat(n) == [type |-> "float", num |-> n, text |-> ""]
PyInt(n) == [type |-> "int", num |-> n, text |-> ""]
PyStr(x) == [type |-> "str", num |-> 0, text |-> x]
PyNone == [type |-> "NoneType", num |-> 0, text |-> ""]

Numbers == {1, 2}
Texts == {"high", "2"}

(* str(value) *)
str(v) ==
    IF v.type = "float" THEN ToString(v.num) \o ".0"
    ELSE IF v.type = "int" THEN ToString(v.num)
    ELSE v.text

PyValues ==
    {PyFloat(n) : n \in Numbers} \cup {PyInt(n) : n \in Numbers} \cup {PyStr(x) : x \in Texts}

(* every value a JSON text of the model can denote *)
JsonValues == PyValues \cup { PyStr(str(v)) : v \in PyValues }

(* json.dumps of a float, an int or a string *)
json_dumps(v) ==
    IF v.type = "str" THEN "\"" \o v.text \o "\"" ELSE str(v)

(* json.loads: the value a text denotes, JSONDecodeError for any other text *)
json_loads(text) ==
    LET denoted == { v \in JsonValues : json_dumps(v) = text }
    IN IF denoted = {} THEN [ok |-> FALSE, value |-> PyNone]
       ELSE [ok |-> TRUE, value |-> CHOOSE v \in denoted : TRUE]

(* float(value): numbers convert, a string is parsed, ValueError otherwise *)
float(v) ==
    IF v.type \in {"float", "int"} THEN [ok |-> TRUE, value |-> PyFloat(v.num)]
    ELSE LET parsed == { n \in Numbers : v.text \in {ToString(n), ToString(n) \o ".0"} }
         IN IF v.type = "str" /\ parsed # {}
            THEN [ok |-> TRUE, value |-> PyFloat(CHOOSE n \in parsed : TRUE)]
            ELSE [ok |-> FALSE, value |-> PyNone]

(* get_value_type of the concrete classes *)
get_value_type(data_class) == IF data_class = "LogPData" THEN "float" ELSE "str"

(* get_native_type of the concrete classes *)
get_native_type(data_class) == IF data_class = "LogPData" THEN "FLOAT" ELSE "STRING"

(* serialize_value *)
serialize_value(data_class, value) == json_dumps(value)

(* deserialize_value: float(json.loads(s)) or str(json.loads(s)) *)
deserialize_value(data_class, serialized_value) ==
    LET loaded == json_loads(serialized_value)
    IN IF ~loaded.ok THEN loaded
       ELSE IF data_class = "LogPData" THEN float(loaded.value)
       ELSE [ok |-> TRUE, value |-> PyStr(str(loaded.value))]

(* validate_value_type: isinstance(value, expected) *)
validate_value_type(data_class, value) == value.type = get_value_type(data_class)

(* AbstractMolecularData.get_value on an in-memory object *)
get_value(obj) ==
    LET native == deserialize_value(obj.data_class, obj.value_json)
    IN IF native.ok /\ validate_value_type(obj.data_class, native.value)
       THEN native
       ELSE [ok |-> FALSE, value |-> PyNone]

(* Fault: the type of the value is validated before the frozen flag is read *)
set_value_validating_first(obj, value) ==
    IF ~validate_value_type(obj.data_class, value)
    THEN [obj |-> obj, error |-> "ValueError"]
    ELSE IF obj.is_frozen THEN [obj |-> obj, error |-> "RuntimeError"]
    ELSE [obj |-> [obj EXCEPT !.value_json = serialize_value(obj.data_class, value),
                              !.native_type = get_native_type(obj.data_class)],
          error |-> ""]

(* Fault: set_value without the is_frozen check *)
set_value_unguarded(obj, value) ==
    IF ~validate_value_type(obj.data_class, value)
    THEN [obj |-> obj, error |-> "ValueError"]
    ELSE [obj |-> [obj EXCEPT !.value_json = serialize_value(obj.data_class, value),
                              !.native_type = get_native_type(obj.data_class)],
          error |-> ""]

(* AbstractMolecularData.set_value on an in-memory object *)
set_value(obj, value) ==
    IF obj.is_frozen THEN [obj |-> obj, error |-> "RuntimeError"]
    ELSE IF ~validate_value_type(obj.data_class, value)
    THEN [obj |-> obj, error |-> "ValueError"]
    ELSE [obj |-> [obj EXCEPT !.value_json = serialize_value(obj.data_class, value),
                              !.native_type = get_native_type(obj.data_class)],
          error |-> ""]

(* AbstractMolecularData.freeze: the flag, the timestamp and the actor are *)
(* set on the object and only those columns are written to its row         *)
freeze(rec, t, user) ==
    [rec EXCEPT !.obj.is_frozen = TRUE, !.obj.frozen_at = t, !.obj.frozen_by = user,
                !.row.is_frozen = TRUE, !.row.frozen_at = t, !.row.frozen_by = user]

(* Model.save(): every column of the row is written from the object *)
save(rec) == [rec EXCEPT !.row = rec.obj]

(* PROPERTY_NAME of the concrete classes *)
PROPERTY_NAME(data_class) == IF data_class = "LogPData" THEN "logp" ELSE "toxicity"

(* get_data_retrieval_methods of the concrete classes *)
get_data_retrieval_methods(data_class) == {"user_input"}

(* a user_tag argument that is None *)
NoTag == "None"

(* retrieve_data(molecule, method, config, user_tag) of the concrete classes: *)
(* ValueError for a method that is not supported, for a config without       *)
(* 'value' and for a value float() rejects; otherwise the object is built    *)
(* from the converted value and saved. config is <<>> or [value |-> v];      *)
(* last_set remembers the native value that was stored                       *)
retrieve_data(t, data_class, molecule, method, config, user_tag) ==
    LET value == config.value
        converted == IF data_class = "LogPData" THEN float(value)
                     ELSE [ok |-> TRUE, value |-> PyStr(str(value))]
        native == converted.value
        obj == [data_class |-> data_class, molecule |-> molecule,
                property_name |-> PROPERTY_NAME(data_class),
                value_json |-> json_dumps(native),
                native_type |-> get_native_type(data_class),
                user_tag |-> IF user_tag = NoTag THEN "default" ELSE user_tag,
                created_at |-> t,
                is_frozen |-> FALSE, frozen_at |-> NoTime, frozen_by |-> "None"]
        none == [obj |-> <<>>, row |-> <<>>, last_set |-> PyNone]
    IN IF method \notin get_data_retrieval_methods(data_class)
       THEN [error |-> "ValueError", rec |-> none]
       ELSE IF "value" \notin DOMAIN config
       THEN [error |-> "ValueError", rec |-> none]
       ELSE IF ~converted.ok
       THEN [error |-> "ValueError", rec |-> none]
       ELSE [error |-> "", rec |-> [obj |-> obj, row |-> obj, last_set |-> native]]

(* Fault: the tag is never part of the lookup *)
get_data_ignoring_tag(db, molecule, data_class, user_tag) ==
    { d \in DOMAIN db.records :
        /\ db.records[d].row.molecule = molecule
        /\ db.records[d].row.data_class = data_class }

(* Molecule.get_data(data_class, user_tag=user_tag): the ids of the rows of *)
(* that class and molecule, of that tag when the tag is truthy             *)
get_data(db, molecule, data_class, user_tag) ==
    { d \in DOMAIN db.records :
        /\ db.records[d].row.molecule = molecule
        /\ db.records[d].row.data_class = data_class
        /\ user_tag # NoTag => db.records[d].row.user_tag = user_tag }

(* .first() under Meta.ordering = ['-created_at']: the rows it can return *)
first(db, ids) ==
    { d \in ids : \A o \in ids : db.records[o].row.created_at <= db.records[d].row.created_at }

(* Molecule.get_or_create_data; new_id is the uuid4 a created record gets, *)
(* instances the records the call can return                               *)
get_or_create_data(db, t, new_id, molecule, data_class, method, config, user_tag) ==
    LET existing == get_data(db, molecule, data_class, user_tag)
        r == retrieve_data(t, data_class, molecule, method, config, user_tag)
    IN IF existing # {}
       THEN [db |-> db, instances |-> first(db, existing), created |-> FALSE, error |-> ""]
       ELSE IF r.error # ""
       THEN [db |-> db, instances |-> {}, created |-> FALSE, error |-> r.error]
       ELSE [db |-> [db EXCEPT !.records = (new_id :> r.rec) @@ @],
             instances |-> {new_id}, created |-> TRUE, error |-> ""]

-----------------------------------------------------------------------------
(* The flow driven in the model: two step classes, declared in the steps   *)
(* attribute of the flow class with the later one first; s1 requires       *)
(* LogPData.                                                               *)
DeclaredSteps == <<"s1", "s0">>

RECURSIVE InsertByOrder(_, _)
InsertByOrder(step_id, ordered) ==
    IF ordered = <<>> THEN <<step_id>>
    ELSE IF StepOrder(step_id) < StepOrder(Head(ordered))
    THEN <<step_id>> \o ordered
    ELSE <<Head(ordered)>> \o InsertByOrder(step_id, Tail(ordered))

(* Fault: the steps are taken in the order of their declaration *)
sorted_as_declared(step_classes) == step_classes

(* sorted(self.steps, key=lambda cls: cls.order): ascending and stable *)
RECURSIVE sorted(_)
sorted(step_classes) ==
    IF step_classes = <<>> THEN <<>>
    ELSE InsertByOrder(step_classes[Len(step_classes)],
                       sorted(SubSeq(step_classes, 1, Len(step_classes) - 1)))

(* ordered = sorted(self.steps, ...), the list the run iterates over *)
FlowSteps == sorted(DeclaredSteps)

required_data_classes(step_id) == IF step_id = "s1" THEN {"LogPData"} ELSE {}

(* WorkflowExecution.set_data_retrieval_method *)
set_data_retrieval_method(db, e, family_id, data_class_name, method) ==
    LET cfg == db.executions[e].family_data_config
        fam_cfg == IF family_id \in DOMAIN cfg THEN cfg[family_id] ELSE <<>>
        updated == (family_id :> ((data_class_name :> method) @@ fam_cfg)) @@ cfg
    IN [db EXCEPT !.executions[e].family_data_config = updated]

(* WorkflowExecution.get_data_retrieval_method; "" stands for a falsy result *)
get_data_retrieval_method(db, e, family_id, data_class_name) ==
    LET cfg == db.executions[e].family_data_config
    IN IF family_id \in DOMAIN cfg /\ data_class_name \in DOMAIN cfg[family_id]
       THEN cfg[family_id][data_class_name]
       ELSE ""

(* Fault: the dependency test never looks at required_data_classes *)
can_execute_without_requirements(db, e, step_id) ==
    \A family \in db.executions[e].families : family \in DOMAIN db.families

(* BaseStep.can_execute *)
can_execute(db, e, step_id) ==
    \A family \in db.executions[e].families :
        \A data_class \in required_data_classes(step_id) :
            \A m \in db.families[family] :
                get_data_retrieval_method(db, e, family, data_class) # ""

(* BaseStep.execute: save(update_fields=["results", "status", "completed_at"]) *)
(* writes these three fields of the object to its row and no other           *)
execute(db, t, step_exec, results) ==
    LET obj == [step_exec EXCEPT !.results = results, !.status = COMPLETED, !.completed_at = t]
        stored == CHOOSE s \in db.steps : s.pk = obj.pk
        row == [stored EXCEPT !.results = results, !.status = COMPLETED, !.completed_at = t]
    IN [db |-> StepExecution_save(db, row), obj |-> obj]

(* the retrieval method a registering step records for the data it obtained *)
RegisteredMethod == [family_id |-> "fam1", data_class_name |-> "ToxicityData",
                     method |-> "computed"]

(* _process_step of the step classes driven here: a step listed in          *)
(* registering records, on the execution, how it obtained its data; the     *)
(* results a step returns name the step and repeat the input_data it was    *)
(* handed                                                                   *)
_process_step(db, e, step_id, registering) ==
    IF step_id \in registering
    THEN set_data_retrieval_method(db, e, RegisteredMethod.family_id,
                                   RegisteredMethod.data_class_name, RegisteredMethod.method)
    ELSE db

(* the StepExecution object held by _run_single_step: its                   *)
(* data_retrieval_methods attribute is the very dict object that is the     *)
(* execution's family_data_config (passed by reference to start_step), so   *)
(* it reads whatever that dict holds now                                    *)
held(db, e, step_exec) ==
    [step_exec EXCEPT !.data_retrieval_methods = db.executions[e].family_data_config]

(* Fault: the completion test looks for RUNNING snapshots *)
_is_completed_by_running(db, e, step_id) ==
    \E s \in db.steps : s.execution = e /\ s.step_id = step_id /\ s.status = RUNNING

(* FlowBase._is_completed *)
_is_completed(db, e, step_id) ==
    \E s \in db.steps : s.execution = e /\ s.step_id = step_id /\ s.status = COMPLETED

(* Fault: the failure handler records the failure and does not re-raise *)
_run_single_step_swallowing(db, t, e, step_id, auto_skip_completed, failing, registering) ==
    LET st == start_step(db, t, e, step_id, StepOrder(step_id),
                         freeze_family_data(db, e), db.executions[e].family_data_config)
        processed == _process_step(st.db, e, step_id, registering)
        step_exec == held(processed, e, st.ret)
        results == [step |-> step_id, input_data |-> step_exec.input_data_snapshot]
        ex == execute(processed, t, step_exec, results)
    IN IF auto_skip_completed /\ _is_completed(db, e, step_id)
       THEN [db |-> db, raised |-> FALSE, outcome |-> "skipped"]
       ELSE IF ~can_execute(db, e, step_id)
       THEN [db |-> db, raised |-> TRUE, outcome |-> "RuntimeError"]
       ELSE IF step_id \in failing
       THEN [db |-> mark_failed(processed, t, step_exec, "boom"), raised |-> FALSE,
             outcome |-> "failed"]
       ELSE [db |-> complete_step(ex.db, t, e, ex.obj, results), raised |-> FALSE,
             outcome |-> "completed"]

(* Fault: the failure handler re-raises without recording the failure *)
_run_single_step_not_marking(db, t, e, step_id, auto_skip_completed, failing, registering) ==
    LET st == start_step(db, t, e, step_id, StepOrder(step_id),
                         freeze_family_data(db, e), db.executions[e].family_data_config)
        processed == _process_step(st.db, e, step_id, registering)
        step_exec == held(processed, e, st.ret)
        results == [step |-> step_id, input_data |-> step_exec.input_data_snapshot]
        ex == execute(processed, t, step_exec, results)
    IN IF auto_skip_completed /\ _is_completed(db, e, step_id)
       THEN [db |-> db, raised |-> FALSE, outcome |-> "skipped"]
       ELSE IF ~can_execute(db, e, step_id)
       THEN [db |-> db, raised |-> TRUE, outcome |-> "RuntimeError"]
       ELSE IF step_id \in failing
       THEN [db |-> processed, raised |-> TRUE, outcome |-> "failed"]
       ELSE [db |-> complete_step(ex.db, t, e, ex.obj, results), raised |-> FALSE,
             outcome |-> "completed"]

(* FlowBase._run_single_step; failing lists the steps whose _process_step  *)
(* raises (after what it registered); outcome names the path taken through *)
(* the method                                                              *)
_run_single_step(db, t, e, step_id, auto_skip_completed, failing, registering) ==
    LET st == start_step(db, t, e, step_id, StepOrder(step_id),
                         freeze_family_data(db, e), db.executions[e].family_data_config)
        processed == _process_step(st.db, e, step_id, registering)
        step_exec == held(processed, e, st.ret)
        results == [step |-> step_id, input_data |-> step_exec.input_data_snapshot]
        ex == execute(processed, t, step_exec, results)
    IN IF auto_skip_completed /\ _is_completed(db, e, step_id)
       THEN [db |-> db, raised |-> FALSE, outcome |-> "skipped"]
       ELSE IF ~can_execute(db, e, step_id)
       THEN [db |-> db, raised |-> TRUE, outcome |-> "RuntimeError"]
       ELSE IF step_id \in failing
       THEN [db |-> mark_failed(processed, t, step_exec, "boom"), raised |-> TRUE,
             outcome |-> "failed"]
       ELSE [db |-> complete_step(ex.db, t, e, ex.obj, results), raised |-> FALSE,
             outcome |-> "completed"]

(* the loop of FlowBase.run over the ordered steps; trace lists the steps *)
(* handed to _run_single_step with the path each one took                *)
RECURSIVE run_loop(_, _, _, _, _, _, _, _)
run_loop(db, t, e, ordered, until_step, auto_skip_completed, failing, registering) ==
    IF ordered = <<>> THEN [db |-> db, raised |-> FALSE, trace |-> <<>>]
    ELSE LET step_id == Head(ordered)
             r == _run_single_step(db, t, e, step_id, auto_skip_completed, failing, registering)
             entry == [step_id |-> step_id, outcome |-> r.outcome]
             rest == run_loop(r.db, t, e, Tail(ordered), until_step, auto_skip_completed,
                              failing, registering)
         IN IF until_step # "" /\ step_id = until_step /\ _is_completed(db, e, step_id)
            THEN [db |-> db, raised |-> FALSE, trace |-> <<>>]
            ELSE IF r.raised \/ (until_step # "" /\ step_id = until_step)
            THEN [db |-> r.db, raised |-> r.raised, trace |-> <<entry>>]
            ELSE [rest EXCEPT !.trace = <<entry>> \o @]

(* Fault: the loop never looks at until_step *)
run_ignoring_until(db, t, e, until_step, auto_skip_completed, failing, registering) ==
    run_loop(db, t, e, FlowSteps, "", auto_skip_completed, failing, registering)

(* FlowBase.run *)
run(db, t, e, until_step, auto_skip_completed, failing, registering) ==
    run_loop(db, t, e, FlowSteps, until_step, auto_skip_completed, failing, registering)

-----------------------------------------------------------------------------
(* WorkflowExecution objects held by the caller. objects.refs names, for   *)
(* each held object, the dict object its family_data_config attribute      *)
(* points to; objects.dicts is the content of each dict object.            *)

(* self.family_data_config of the object held for execution e *)
held_config(db, e) == db.objects.dicts[db.objects.refs[e]]

(* the store as a method running on the held object of e reads self *)
as_self(db, e) == [db EXCEPT !.executions[e].family_data_config = held_config(db, e)]

(* WorkflowExecution.objects.get(execution_id=e): a new object whose dict is *)
(* deserialized from the row                                                 *)
get_object(db, e) ==
    [db EXCEPT !.objects.dicts = Append(@, db.executions[e].family_data_config),
               !.objects.refs = (e :> (Len(db.objects.dicts) + 1)) @@ @]

(* clone = self.fork_execution(...): objects.create(family_data_config=     *)
(* self.family_data_config) stores the content in the new row and leaves    *)
(* the very same dict object on the returned instance; self is not saved    *)
fork_execution_held(db, t, e, new_execution_id, target_branch) ==
    LET r == fork_execution(as_self(db, e), t, e, new_execution_id, target_branch)
        stored == [r.db EXCEPT !.executions[e].family_data_config =
                                    db.executions[e].family_data_config]
    IN IF r.raised THEN [db |-> db, raised |-> TRUE, ret |-> NoId]
       ELSE [db |-> [stored EXCEPT !.objects.refs = (r.ret :> db.objects.refs[e]) @@ @],
             raised |-> FALSE, ret |-> r.ret]

(* new_exec = self.branch_execution(...), same hand-over of the dict *)
branch_execution_held(db, t, e, branch_label) ==
    LET r == branch_execution(as_self(db, e), t, e, branch_label)
        stored == [r.db EXCEPT !.executions[e].family_data_config =
                                    db.executions[e].family_data_config]
    IN [r EXCEPT !.db = [stored EXCEPT !.objects.refs = (r.ret :> db.objects.refs[e]) @@ @]]

(* set_data_retrieval_method on a held object: the dict object is changed  *)
(* in place (cfg.setdefault(...)[data_class_name] = method) and self.save() *)
(* writes it to the row of self                                            *)
set_data_retrieval_method_held(db, e, family_id, data_class_name, method) ==
    LET saved == set_data_retrieval_method(as_self(db, e), e, family_id, data_class_name, method)
    IN [saved EXCEPT !.objects.dicts[db.objects.refs[e]] =
                          saved.executions[e].family_data_config]

(* get_data_retrieval_method on a held object *)
get_data_retrieval_method_held(db, e, family_id, data_class_name) ==
    get_data_retrieval_method(as_self(db, e), e, family_id, data_class_name)

-----------------------------------------------------------------------------
(* The call that produced the current state; unused fields keep these values. *)
NoOp == [op |-> "init", exec |-> NoId, molecule |-> "", property |-> "", data_id |-> "",
         data_class |-> "", step_order |-> -1, raised |-> FALSE, forked |-> FALSE,
         new_exec |-> NoId, new_branch |-> NoId, new_workflow |-> NoId,
         target_branch |-> NoId, error |-> "", value |-> PyNone, until_step |-> "",
         auto_skip_completed |-> FALSE, failing |-> {}, trace |-> <<>>, step_pk |-> 0,
         event_type |-> "", new_branch_id |-> NoId, preference_overrides |-> <<>>,
         registering |-> {}, method |-> "", config |-> <<>>, user_tag |-> NoTag,
         family_id |-> "", proc |-> "", kind |-> "",
         instances |-> {}, created |-> FALSE, workflow |-> NoId]

(* the caller holds no WorkflowExecution object: every call runs on an      *)
(* object just read from its row                                           *)
NoObjects == [refs |-> <<>>, dicts |-> <<>>]

(* One blueprint, one branch, one execution over one family, as the tests build them. *)
BaseDB ==
    [workflows |-> (<<"wf">> :> [branch_of |-> NoId, root_branch |-> NoId, branch_label |-> NoId]),
     branches |-> (<<"main">> :> [workflow |-> <<"wf">>, name |-> <<"Main">>,
                                  parent_branch |-> NoId,
                                  data_selection_preferences |-> <<>>]),
     executions |-> (<<"exec">> :> [workflow |-> <<"wf">>, branch |-> <<"main">>,
                                    families |-> {"fam1"},
                                    family_data_config |-> <<>>,
                                    status |-> PENDING,
                                    current_step |-> "",
                                    current_step_index |-> 0,
                                    parent_execution |-> NoId,
                                    branch_label |-> NoId]),
     steps |-> {},
     selections |-> {},
     events |-> <<>>,
     families |-> ("fam1" :> {"m1"}),
     nextPk |-> 1,
     records |-> <<>>,
     objects |-> NoObjects,
     calls |-> <<>>]

(* Snapshots recorded on the first execution before the calls under study: *)
(* rows written with StepExecution.objects.create (status and declared     *)
(* input_properties given), or steps driven through start_step and         *)
(* complete_step / mark_failed.                                            *)
SetupStep(db, t, e, item) ==
    IF item.how = "create"
    THEN StepExecution_create(db, [StepExecutionRow(e, item.step_id, StepOrder(item.step_id))
                                      EXCEPT !.status = item.status,
                                             !.input_signature = "sig",
                                             !.input_properties = item.input_properties,
                                             !.providers_used = <<"pe1">>])
    ELSE LET st == start_step(db, t, e, item.step_id, StepOrder(item.step_id),
                              freeze_family_data(db, e), db.executions[e].family_data_config)
         IN IF item.status = COMPLETED THEN complete_step(st.db, t, e, st.ret, [ok |-> TRUE])
            ELSE IF item.status = FAILED THEN mark_failed(st.db, t, st.ret, "boom")
            ELSE st.db

RECURSIVE SetupSteps(_, _, _, _)
SetupSteps(db, t, e, items) ==
    IF items = <<>> THEN db
    ELSE SetupSteps(SetupStep(db, t, e, Head(items)), t, e, Tail(items))

RECURSIVE SetupSelections(_, _, _, _)
SetupSelections(db, t, e, vs) ==
    IF vs = <<>> THEN db
    ELSE SetupSelections(
            select_property_variant(db, t, e, Head(vs).molecule, Head(vs).property_name, Head(vs)).db,
            t, e, Tail(vs))

Range(seq) == { seq[i] : i \in 1..Len(seq) }

(* the sub-sequences of pool *)
Picks(pool) ==
    { SelectSeq(pool, LAMBDA x : x \in S) : S \in SUBSET Range(pool) }

SelectPool ==
    << [how |-> "create", step_id |-> "s0", status |-> COMPLETED, input_properties |-> <<"logp">>],
       [how |-> "create", step_id |-> "s1", status |-> COMPLETED, input_properties |-> <<"toxicity", "logp">>],
       [how |-> "create", step_id |-> "s1", status |-> FAILED, input_properties |-> <<"logp">>],
       [how |-> "create", step_id |-> "s1", status |-> RUNNING, input_properties |-> <<"logp">>] >>

BranchPool ==
    << [how |-> "run", step_id |-> "s0", status |-> COMPLETED, input_properties |-> <<>>],
       [how |-> "create", step_id |-> "s1", status |-> COMPLETED, input_properties |-> <<"logp">>],
       [how |-> "create", step_id |-> "s1", status |-> FAILED, input_properties |-> <<"logp">>],
       [how |-> "run", step_id |-> "s1", status |-> RUNNING, input_properties |-> <<>>] >>

VariantById(d) == CHOOSE v \in Variants : v.data_id = d

InitWith(db) ==
    /\ now = 0
    /\ workflows = db.workflows
    /\ branches = db.branches
    /\ executions = db.executions
    /\ steps = db.steps
    /\ selections = db.selections
    /\ events = db.events
    /\ families = db.families
    /\ nextPk = db.nextPk
    /\ records = db.records
    /\ objects = db.objects
    /\ calls = db.calls
    /\ ops = 0
    /\ lastOp = NoOp
    /\ pre = db

(* an execution with some snapshots and an empty ledger *)
Init ==
    \E items \in Picks(SelectPool),
       vs \in {<<>>, <<VariantById("d3"), VariantById("d4")>>} :
        InitWith(SetupSteps(SetupSelections(BaseDB, 0, <<"exec">>, vs), 0, <<"exec">>, items))

(* an execution whose ledger was filled before its steps ran *)
InitBranch ==
    \E items \in Picks(BranchPool),
       vs \in {<<>>, <<VariantById("d1"), VariantById("d3")>>} :
        InitWith(SetupSteps(SetupSelections(BaseDB, 0, <<"exec">>, vs), 0, <<"exec">>, items))

Call(db, op) ==
    /\ SetDB(db)
    /\ pre' = DB
    /\ lastOp' = op
    /\ ops' = ops + 1
    /\ UNCHANGED now

(* the clock advances between calls *)
Tick ==
    /\ now < MaxNow
    /\ now' = now + 1
    /\ pre' = DB
    /\ lastOp' = [NoOp EXCEPT !.op = "tick"]
    /\ UNCHANGED <<workflows, branches, executions, steps, selections, events, families,
                   nextPk, records, objects, calls, ops>>

SelectPropertyVariant ==
    /\ ops < MaxSelectOps
    /\ \E e \in DOMAIN executions, v \in Variants :
        LET r == select_property_variant(DB, now, e, v.molecule, v.property_name, v)
        IN Call(r.db, [NoOp EXCEPT !.op = "select_property_variant", !.exec = e,
                                   !.molecule = v.molecule, !.property = v.property_name,
                                   !.data_id = v.data_id, !.data_class = v.data_class,
                                   !.raised = r.raised, !.forked = r.forked,
                                   !.new_exec = r.new_exec, !.new_branch = r.new_branch])

(* Inputs of the branching calls *)
NewExecutionIds == {<<"fork">>, <<"exec">>}
RewindOrders == {0, 1, 2}

ForkExecution ==
    /\ ops < MaxBranchOps
    /\ \E e \in DOMAIN executions, id \in NewExecutionIds, b \in DOMAIN branches :
        LET r == fork_execution(DB, now, e, id, b)
        IN Call(r.db, [NoOp EXCEPT !.op = "fork_execution", !.exec = e, !.raised = r.raised,
                                   !.new_exec = r.ret, !.target_branch = b])

BranchExecution ==
    /\ ops < MaxBranchOps
    /\ \E e \in DOMAIN executions, label \in {NoId, <<"exp1">>} :
        LET r == branch_execution(DB, now, e, label)
        IN Call(r.db, [NoOp EXCEPT !.op = "branch_execution", !.exec = e,
                                   !.new_exec = r.ret, !.new_branch = r.new_branch,
                                   !.new_workflow = r.new_workflow])

RewindTo ==
    /\ ops < MaxBranchOps
    /\ \E e \in DOMAIN executions, n \in RewindOrders :
        LET r == rewind_to(DB, now, e, n)
        IN Call(r.db, [NoOp EXCEPT !.op = "rewind_to", !.exec = e, !.step_order = n,
                                   !.new_exec = r.ret, !.new_branch = r.new_branch,
                                   !.new_workflow = r.new_workflow])

Next ==
    \/ Tick
    \/ SelectPropertyVariant

NextBranch ==
    \/ Tick
    \/ ForkExecution
    \/ BranchExecution
    \/ RewindTo

(* selections and the auto-fork they trigger *)
Spec == Init /\ [][Next]_vars

(* explicit fork, branch and rewind *)
SpecBranch == InitBranch /\ [][NextBranch]_vars

(* Data records under study: one float record and one string record, each *)
(* created by retrieve_data from a user-supplied value.                   *)
MaxRecordOps == 3

ConfigValues == {PyFloat(1), PyInt(2), PyStr("2")}
SetValues == {PyFloat(1), PyFloat(2), PyInt(2), PyStr("high")}
Users == {"None", "u1"}

InitRecord ==
    \E c1 \in ConfigValues, c3 \in {PyStr("high"), PyFloat(1)} :
        InitWith([BaseDB EXCEPT !.records =
                      ("d1" :> retrieve_data(0, "LogPData", "m1", "user_input",
                                             [value |-> c1], NoTag).rec) @@
                      ("d3" :> retrieve_data(0, "ToxicityData", "m1", "user_input",
                                             [value |-> c3], NoTag).rec)])

SetValue ==
    /\ ops < MaxRecordOps
    /\ \E d \in DOMAIN records, value \in SetValues :
        LET r == set_value(records[d].obj, value)
        IN Call([DB EXCEPT !.records[d].obj = r.obj,
                           !.records[d].last_set = IF r.error = "" THEN value ELSE @],
                [NoOp EXCEPT !.op = "set_value", !.data_id = d, !.value = value,
                             !.error = r.error, !.raised = r.error # ""])

Freeze ==
    /\ ops < MaxRecordOps
    /\ \E d \in DOMAIN records, user \in Users :
        Call([DB EXCEPT !.records[d] = freeze(@, now, user)],
             [NoOp EXCEPT !.op = "freeze", !.data_id = d])

Save ==
    /\ ops < MaxRecordOps
    /\ \E d \in DOMAIN records :
        Call([DB EXCEPT !.records[d] = save(@)],
             [NoOp EXCEPT !.op = "save", !.data_id = d])

NextRecord ==
    \/ Tick
    \/ SetValue
    \/ Freeze
    \/ Save

(* typed values and the freeze of data records *)
SpecRecord == InitRecord /\ [][NextRecord]_vars

(* Flow runs over the first execution: its family has one member or none, *)
(* and some snapshots may exist from earlier runs.                        *)
MaxFlowOps == 2

FlowPool ==
    << [how |-> "create", step_id |-> "s0", status |-> COMPLETED, input_properties |-> <<>>],
       [how |-> "create", step_id |-> "s1", status |-> FAILED, input_properties |-> <<>>] >>

InitFlow ==
    \E items \in Picks(FlowPool), members \in {{}, {"m1"}} :
        InitWith(SetupSteps([BaseDB EXCEPT !.families["fam1"] = members], 0, <<"exec">>, items))

RunFlow ==
    /\ ops < MaxFlowOps
    /\ \E e \in DOMAIN executions, until_step \in {"", "s0", "s1"},
          auto_skip_completed \in BOOLEAN, failing \in {{}, {"s0"}, {"s1"}},
          registering \in {{}, {"s0"}} :
        LET r == run(DB, now, e, until_step, auto_skip_completed, failing, registering)
        IN Call(r.db, [NoOp EXCEPT !.op = "run", !.exec = e, !.raised = r.raised,
                                   !.until_step = until_step,
                                   !.auto_skip_completed = auto_skip_completed,
                                   !.failing = failing, !.trace = r.trace,
                                   !.registering = registering])

SetDataRetrievalMethod ==
    /\ ops < MaxFlowOps
    /\ \E e \in DOMAIN executions, f \in FamilyIds, method \in {"user_input", ""} :
        Call(set_data_retrieval_method(DB, e, f, "LogPData", method),
             [NoOp EXCEPT !.op = "set_data_retrieval_method", !.exec = e])

(* family.members.add(molecule) / family.members.remove(molecule) *)
SetMembers ==
    /\ ops < MaxFlowOps
    /\ \E f \in DOMAIN families, m \in Molecules :
        LET members == IF m \in families[f] THEN families[f] \ {m} ELSE families[f] \cup {m}
        IN Call([DB EXCEPT !.families[f] = members],
                [NoOp EXCEPT !.op = "members", !.molecule = m])

NextFlow ==
    \/ Tick
    \/ RunFlow
    \/ SetDataRetrievalMethod
    \/ SetMembers

(* the step orchestrator *)
SpecFlow == InitFlow /\ [][NextFlow]_vars

MaxStepOps == 2

StepPool ==
    << [how |-> "run", step_id |-> "s0", status |-> COMPLETED, input_properties |-> <<>>],
       [how |-> "run", step_id |-> "s1", status |-> RUNNING, input_properties |-> <<>>] >>

(* an execution driven through the step API by hand *)
InitStep ==
    \E items \in Picks(StepPool), vs \in {<<>>, <<VariantById("d1")>>} :
        InitWith(SetupSteps(SetupSelections(BaseDB, 0, <<"exec">>, vs), 0, <<"exec">>, items))

StartStep ==
    /\ ops < MaxStepOps
    /\ \E e \in DOMAIN executions, step_id \in StepIds :
        LET r == start_step(DB, now, e, step_id, StepOrder(step_id),
                            freeze_family_data(DB, e), executions[e].family_data_config)
        IN Call(r.db, [NoOp EXCEPT !.op = "start_step", !.exec = e, !.step_pk = r.ret.pk])

(* execution.complete_step(step_exec, results) on a snapshot of that execution *)
CompleteStep ==
    /\ ops < MaxStepOps
    /\ \E step_exec \in steps :
        Call(complete_step(DB, now, step_exec.execution, step_exec, [ok |-> TRUE]),
             [NoOp EXCEPT !.op = "complete_step", !.exec = step_exec.execution,
                          !.step_pk = step_exec.pk])

MarkFailed ==
    /\ ops < MaxStepOps
    /\ \E step_exec \in steps :
        Call(mark_failed(DB, now, step_exec, "boom"),
             [NoOp EXCEPT !.op = "mark_failed", !.exec = step_exec.execution,
                          !.step_pk = step_exec.pk, !.error = "boom"])

(* step.execute(step_exec) with a computation that returns *)
Execute ==
    /\ ops < MaxStepOps
    /\ \E step_exec \in steps :
        Call(execute(DB, now, step_exec, [step |-> step_exec.step_id]).db,
             [NoOp EXCEPT !.op = "execute", !.exec = step_exec.execution,
                          !.step_pk = step_exec.pk])

LogEvent ==
    /\ ops < MaxStepOps
    /\ \E e \in DOMAIN executions :
        Call(log_event(DB, now, e, "NOTE", [text |-> "note"]),
             [NoOp EXCEPT !.op = "log_event", !.exec = e, !.event_type = "NOTE"])

NextStep ==
    \/ Tick
    \/ StartStep
    \/ CompleteStep
    \/ MarkFailed
    \/ Execute
    \/ LogEvent
    \/ (ops < MaxStepOps /\ SelectPropertyVariant)
    \/ ForkExecution
    \/ BranchExecution
    \/ RewindTo

(* the step API together with selections and branching *)
SpecStep == InitStep /\ [][NextStep]_vars

MaxForkOps == 3

(* data_selection_preferences of the first branch, and overrides passed to fork *)
Preferences == { <<>>, ("logp" :> "rdkit"), ("logp" :> "rdkit") @@ ("toxicity" :> "protox") }
PreferenceOverrides == { <<>>, ("logp" :> "user"), ("toxicity" :> "user") }
NewBranchIds == { <<"main">>, <<"main", "1">>, <<"alt">> }

InitFork ==
    \E prefs \in Preferences :
        InitWith([BaseDB EXCEPT !.branches[<<"main">>].data_selection_preferences = prefs])

ForkBranch ==
    /\ ops < MaxForkOps
    /\ \E b \in DOMAIN branches, new_branch_id \in NewBranchIds,
          preference_overrides \in PreferenceOverrides :
        LET r == fork(DB, b, new_branch_id, <<"Variant">>, preference_overrides)
        IN Call(r.db, [NoOp EXCEPT !.op = "fork", !.target_branch = b,
                                   !.new_branch = r.ret, !.new_branch_id = new_branch_id,
                                   !.preference_overrides = preference_overrides])

BranchWorkflow ==
    /\ ops < MaxForkOps
    /\ \E w \in DOMAIN workflows, branch_label \in {NoId, <<"exp1">>} :
        LET r == branch(DB, now, w, branch_label)
        IN Call(r.db, [NoOp EXCEPT !.op = "branch", !.workflow = w, !.new_workflow = r.ret])

NextFork ==
    \/ Tick
    \/ ForkBranch
    \/ BranchWorkflow

(* direct forks of a branch and branches of a blueprint *)
SpecFork == InitFork /\ [][NextFork]_vars

MaxDataOps == 3

DataIds == {"d1", "d2", "d3"}
DataClasses == {"LogPData", "ToxicityData"}
Methods == {"user_input", "rdkit"}
Configs == { <<>>, [value |-> PyFloat(1)], [value |-> PyStr("high")] }
UserTags == {NoTag, "t1"}

(* a molecule without data records *)
InitData == InitWith(BaseDB)

(* data_class.retrieve_data(molecule, method, config=config, user_tag=user_tag) *)
RetrieveData ==
    /\ ops < MaxDataOps
    /\ \E new_id \in DataIds \ DOMAIN records, data_class \in DataClasses,
          method \in Methods, config \in Configs, user_tag \in UserTags :
        LET r == retrieve_data(now, data_class, "m1", method, config, user_tag)
        IN Call(IF r.error = "" THEN [DB EXCEPT !.records = (new_id :> r.rec) @@ @] ELSE DB,
                [NoOp EXCEPT !.op = "retrieve_data", !.molecule = "m1",
                             !.data_class = data_class, !.method = method,
                             !.config = config, !.user_tag = user_tag,
                             !.error = r.error, !.raised = r.error # "",
                             !.data_id = IF r.error = "" THEN new_id ELSE ""])

GetOrCreateData ==
    /\ ops < MaxDataOps
    /\ \E new_id \in DataIds \ DOMAIN records, data_class \in DataClasses,
          method \in Methods, config \in Configs, user_tag \in UserTags :
        LET r == get_or_create_data(DB, now, new_id, "m1", data_class, method, config,
                                    user_tag)
        IN Call(r.db,
                [NoOp EXCEPT !.op = "get_or_create_data", !.molecule = "m1",
                             !.data_class = data_class, !.method = method,
                             !.config = config, !.user_tag = user_tag,
                             !.error = r.error, !.raised = r.error # "",
                             !.instances = r.instances, !.created = r.created,
                             !.data_id = new_id])

NextData ==
    \/ Tick
    \/ RetrieveData
    \/ GetOrCreateData

(* the data records of a molecule *)
SpecData == InitData /\ [][NextData]_vars

MaxObjectOps == 3

DataClassNames == {"LogPData", "ToxicityData"}

(* the caller holds the object of the first execution, just loaded *)
InitObjects ==
    \E cfg \in {<<>>, ("fam1" :> ("LogPData" :> "user_input"))} :
        InitWith(get_object([BaseDB EXCEPT !.executions[<<"exec">>].family_data_config = cfg],
                            <<"exec">>))

HeldObjects == DOMAIN objects.refs

ForkExecutionHeld ==
    /\ ops < MaxObjectOps
    /\ \E e \in HeldObjects, id \in NewExecutionIds, b \in DOMAIN branches :
        LET r == fork_execution_held(DB, now, e, id, b)
        IN Call(r.db, [NoOp EXCEPT !.op = "fork_execution", !.exec = e, !.raised = r.raised,
                                   !.new_exec = r.ret, !.target_branch = b])

BranchExecutionHeld ==
    /\ ops < MaxObjectOps
    /\ \E e \in HeldObjects :
        LET r == branch_execution_held(DB, now, e, NoId)
        IN Call(r.db, [NoOp EXCEPT !.op = "branch_execution", !.exec = e,
                                   !.new_exec = r.ret, !.new_branch = r.new_branch,
                                   !.new_workflow = r.new_workflow])

SetDataRetrievalMethodHeld ==
    /\ ops < MaxObjectOps
    /\ \E e \in HeldObjects, family_id \in FamilyIds, data_class_name \in DataClassNames,
          method \in {"user_input", "computed"} :
        Call(set_data_retrieval_method_held(DB, e, family_id, data_class_name, method),
             [NoOp EXCEPT !.op = "set_data_retrieval_method", !.exec = e,
                          !.family_id = family_id, !.data_class = data_class_name,
                          !.method = method])

(* the caller drops an object and reads the execution again *)
GetObject ==
    /\ ops < MaxObjectOps
    /\ \E e \in HeldObjects :
        Call(get_object(DB, e), [NoOp EXCEPT !.op = "get", !.exec = e])

NextObjects ==
    \/ Tick
    \/ ForkExecutionHeld
    \/ BranchExecutionHeld
    \/ SetDataRetrievalMethodHeld
    \/ GetObject

(* executions forked and branched by a caller that keeps the objects *)
SpecObjects == InitObjects /\ [][NextObjects]_vars

MaxLedgerOps == 2

(* an execution with no step, one or two COMPLETED steps that used the   *)
(* property, and an empty or a filled ledger                             *)
InitLedger ==
    \E n \in 0..2, vs \in {<<>>, <<VariantById("d3"), VariantById("d4")>>} :
        InitWith(SetupSteps(SetupSelections(BaseDB, 0, <<"exec">>, vs), 0, <<"exec">>,
                            SubSeq(SelectPool, 1, n)))

(* selections interleaved with explicit forks, branches and rewinds *)
NextLedger ==
    \/ Tick
    \/ (ops < MaxLedgerOps /\ SelectPropertyVariant)
    \/ (ops < MaxLedgerOps /\ ForkExecution)
    \/ (ops < MaxLedgerOps /\ BranchExecution)
    \/ (ops < MaxLedgerOps /\ RewindTo)

(* the selection ledger across every way an execution is derived *)
SpecLedger == InitLedger /\ [][NextLedger]_vars

MaxRaceOps == 4

Procs == {"p1", "p2"}
Kinds == {"fork", "branch", "branch_execution"}
RaceIds == {<<"alt">>, <<"exp">>}

(* a process that is not inside a call *)
Idle == [pc |-> "idle", kind |-> "", candidate |-> NoId, t |-> NoTime,
         new_wf |-> NoId, new_wf_label |-> NoId, new_branch |-> NoId, interleaved |-> FALSE]

(* two processes calling on the first branch, blueprint and execution *)
InitRace == InitWith([BaseDB EXCEPT !.calls = [p \in Procs |-> Idle]])

(* a step of process p falls between the check and the create of every *)
(* other call in flight                                                *)
Interleave(db, p) ==
    [db EXCEPT !.calls = [q \in Procs |->
        IF q # p /\ @[q].pc = "checked" THEN [@[q] EXCEPT !.interleaved = TRUE] ELSE @[q]]]

(* the existence loop of a call: the candidate id it leaves with *)
check(db, t, kind, new_branch_id) ==
    LET base == <<"wf">> \o <<"br", StampEpoch(t)>>
        ids == branch_execution_ids(db, t, <<"exec">>, NoId)
    IN IF kind = "fork"
       THEN [db |-> db,
             call |-> [Idle EXCEPT !.candidate =
                          SuffixLoop(new_branch_id, new_branch_id, 0, DOMAIN db.branches).candidate]]
       ELSE IF kind = "branch"
       THEN [db |-> db,
             call |-> [Idle EXCEPT !.candidate =
                          SuffixLoop(base, base, 0, DOMAIN db.workflows).candidate]]
       ELSE [db |-> ids.db,
             call |-> [Idle EXCEPT !.candidate = ids.new_exec_id, !.new_wf = ids.new_wf,
                                   !.new_wf_label = ids.new_wf_label,
                                   !.new_branch = ids.new_branch]]

(* objects.create with the candidate id: the unique constraint of the id *)
(* column rejects an id that is taken by now (IntegrityError)            *)
create(db, t, call) ==
    LET used == IF call.kind = "fork" THEN DOMAIN db.branches
                ELSE IF call.kind = "branch" THEN DOMAIN db.workflows
                ELSE DOMAIN db.executions
    IN IF call.candidate \in used THEN [db |-> db, raised |-> TRUE]
       ELSE IF call.kind = "fork"
       THEN [db |-> fork(db, <<"main">>, call.candidate, <<"Alt">>, <<>>).db, raised |-> FALSE]
       ELSE IF call.kind = "branch"
       THEN [db |-> branch(db, call.t, <<"wf">>, <<"exp1">>).db, raised |-> FALSE]
       ELSE [db |-> branch_execution_create(db, t, <<"exec">>,
                        [new_wf |-> call.new_wf, new_wf_label |-> call.new_wf_label,
                         new_branch |-> call.new_branch, new_exec_id |-> call.candidate]).db,
             raised |-> FALSE]

(* process p enters a call and runs its existence loop *)
RaceCheck ==
    /\ ops < MaxRaceOps
    /\ \E p \in Procs, kind \in Kinds, new_branch_id \in RaceIds :
        /\ calls[p].pc = "idle"
        /\ kind # "fork" => new_branch_id = <<"alt">>
        /\ LET r == check(DB, now, kind, new_branch_id)
               entered == [r.db EXCEPT !.calls[p] =
                              [r.call EXCEPT !.pc = "checked", !.kind = kind, !.t = now]]
           IN Call(Interleave(entered, p),
                   [NoOp EXCEPT !.op = "check", !.proc = p, !.kind = kind,
                                !.new_branch_id = new_branch_id])

(* process p reaches the create of its call *)
RaceCreate ==
    /\ ops < MaxRaceOps
    /\ \E p \in Procs :
        /\ calls[p].pc = "checked"
        /\ LET r == create(DB, now, calls[p])
               left == [r.db EXCEPT !.calls[p] = Idle]
           IN Call(Interleave(left, p),
                   [NoOp EXCEPT !.op = "create", !.proc = p, !.kind = calls[p].kind,
                                !.raised = r.raised,
                                !.error = IF r.raised THEN "IntegrityError" ELSE ""])

NextRace ==
    \/ Tick
    \/ RaceCheck
    \/ RaceCreate

(* two processes inside the check-then-create id loops *)
SpecRace == InitRace /\ [][NextRace]_vars




-----------------------------------------------------------------------------
(* Views of the store used by the properties *)
StepsOf(db, e) == { s \in db.steps : s.execution = e }

SelectionsOf(db, e) == { s \in db.selections : s.execution = e }

EventsOf(db, e) == SelectSeq(db.events, LAMBDA ev : ev.execution = e)

EventsOfType(db, e, event_type) ==
    SelectSeq(db.events, LAMBDA ev : ev.execution = e /\ ev.event_type = event_type)

IsPrefix(a, b) == Len(a) <= Len(b) /\ SubSeq(b, 1, Len(a)) = a

NewExecutions == DOMAIN executions \ DOMAIN pre.executions

NewBranches == DOMAIN branches \ DOMAIN pre.branches

NewWorkflows == DOMAIN workflows \ DOMAIN pre.workflows

(* a snapshot without its identity: what a copy has to preserve *)
SnapshotContent(s) ==
    [step_id |-> s.step_id, order |-> s.order, status |-> s.status,
     input_data_snapshot |-> s.input_data_snapshot,
     data_retrieval_methods |-> s.data_retrieval_methods,
     results |-> s.results, input_signature |-> s.input_signature,
     input_properties |-> s.input_properties, providers_used |-> s.providers_used]

(* what a ledger entry points to *)
SelectionContent(s) ==
    [molecule |-> s.molecule, property_name |-> s.property_name,
     data_class |-> s.data_class, data_id |-> s.data_id]

(* the fields of an execution that a call on it or from it must not move *)
SameCursorAndBinding(e) ==
    /\ executions[e].current_step = pre.executions[e].current_step
    /\ executions[e].current_step_index = pre.executions[e].current_step_index
    /\ executions[e].branch = pre.executions[e].branch
    /\ executions[e].workflow = pre.executions[e].workflow

(* C1: select_property_variant on E creates exactly one Branch, exactly one *)
(* Execution (child of E) and one AUTO_FORK event on E when E has a         *)
(* COMPLETED snapshot listing the property, and none of them otherwise.     *)
C1_AutoForkExactlyOnce ==
    lastOp.op = "select_property_variant" =>
        LET e == lastOp.exec
            grown == Len(EventsOfType(DB, e, "AUTO_FORK")) - Len(EventsOfType(pre, e, "AUTO_FORK"))
        IN IF impacted_exists(pre, e, lastOp.property)
           THEN /\ Cardinality(NewBranches) = 1
                /\ Cardinality(NewExecutions) = 1
                /\ \A x \in NewExecutions : executions[x].parent_execution = e
                /\ grown = 1
           ELSE /\ NewBranches = {}
                /\ NewExecutions = {}
                /\ grown = 0

(* C2: select_property_variant on E, forking or not, leaves every snapshot  *)
(* of E unchanged in every field and leaves E's current_step,               *)
(* current_step_index, branch and blueprint unchanged.                      *)
C2_SelectLeavesExecutionAndSnapshots ==
    lastOp.op = "select_property_variant" =>
        /\ StepsOf(DB, lastOp.exec) = StepsOf(pre, lastOp.exec)
        /\ SameCursorAndBinding(lastOp.exec)

C2_Witness ==
    /\ lastOp.op = "select_property_variant"
    /\ lastOp.forked
    /\ \E s \in StepsOf(pre, lastOp.exec) : s.status = COMPLETED
    /\ \E s \in StepsOf(pre, lastOp.exec) : s.status = RUNNING

(* C3: after an auto-fork on E the new execution/branch pair holds exactly  *)
(* one ledger entry for every entry of E, with the same molecule, property, *)
(* type name and record id (the entry just changed included), and no other. *)
C3_AutoForkClonesLedger ==
    lastOp.op = "select_property_variant" =>
        \A ne \in NewExecutions :
            LET src == SelectionsOf(DB, lastOp.exec)
                dst == SelectionsOf(DB, ne)
            IN /\ \A s \in dst : s.branch = executions[ne].branch
               /\ { SelectionContent(s) : s \in dst } = { SelectionContent(s) : s \in src }
               /\ Cardinality(dst) = Cardinality(src)
               /\ [molecule |-> lastOp.molecule, property_name |-> lastOp.property,
                   data_class |-> lastOp.data_class, data_id |-> lastOp.data_id]
                     \in { SelectionContent(s) : s \in dst }
               /\ \A s \in selections : s.branch = executions[ne].branch => s.execution = ne

C3_Witness ==
    /\ lastOp.op = "select_property_variant"
    /\ lastOp.forked
    /\ Cardinality(SelectionsOf(DB, lastOp.new_exec)) >= 2
    /\ \E s \in SelectionsOf(pre, lastOp.exec) :
          /\ s.molecule = lastOp.molecule
          /\ s.property_name = lastOp.property
          /\ s.data_id # lastOp.data_id

(* C4: rewind_to(N) on E returns a new execution whose snapshots are exactly *)
(* copies of E's COMPLETED snapshots with order <= N, whose                  *)
(* current_step_index is N+1 and whose parent is E; E keeps its snapshots.   *)
C4_RewindTruncates ==
    lastOp.op = "rewind_to" =>
        LET e == lastOp.exec
            ne == lastOp.new_exec
            kept == { s \in StepsOf(pre, e) : s.status = COMPLETED /\ s.order <= lastOp.step_order }
        IN /\ ne \in NewExecutions
           /\ { SnapshotContent(s) : s \in StepsOf(DB, ne) } = { SnapshotContent(s) : s \in kept }
           /\ Cardinality(StepsOf(DB, ne)) = Cardinality(kept)
           /\ \A s \in StepsOf(DB, ne) : s.order <= lastOp.step_order
           /\ executions[ne].current_step_index = lastOp.step_order + 1
           /\ executions[ne].parent_execution = e
           /\ Cardinality(StepsOf(DB, e)) = Cardinality(StepsOf(pre, e))

C4_Witness ==
    /\ lastOp.op = "rewind_to"
    /\ lastOp.step_order = 0
    /\ Cardinality({ s \in StepsOf(pre, lastOp.exec) : s.status = COMPLETED }) = 2
    /\ Cardinality(StepsOf(DB, lastOp.new_exec)) = 1

(* C5: fork_execution, branch_execution and rewind_to never modify the      *)
(* source execution: its snapshots, ledger entries, cursor, branch and      *)
(* blueprint keep their values and its event log only grows.                *)
C5_BranchingLeavesSource ==
    lastOp.op \in {"fork_execution", "branch_execution", "rewind_to"} =>
        LET e == lastOp.exec
        IN /\ StepsOf(DB, e) = StepsOf(pre, e)
           /\ SelectionsOf(DB, e) = SelectionsOf(pre, e)
           /\ SameCursorAndBinding(e)
           /\ executions[e] = pre.executions[e]
           /\ IsPrefix(EventsOf(pre, e), EventsOf(DB, e))

C5_Witness ==
    /\ lastOp.op = "rewind_to"
    /\ lastOp.step_order = 0
    /\ \E s \in StepsOf(pre, lastOp.exec) : s.status = COMPLETED /\ s.order > 0
    /\ SelectionsOf(pre, lastOp.exec) # {}
    /\ pre.executions[lastOp.exec].current_step_index > 0

(* C6: branch_execution creates one Blueprint (child of the source's), one  *)
(* Branch (child of the source's) and one Execution (child of the source)   *)
(* holding one COMPLETED copy of each COMPLETED snapshot of the source and  *)
(* no copy of RUNNING or FAILED ones, with the source's current_step_index; *)
(* one EXEC_BRANCH_CREATED event is appended to the source.                 *)
C6_BranchExecutionDeepClone ==
    lastOp.op = "branch_execution" =>
        LET e == lastOp.exec
            ne == lastOp.new_exec
            done == { s \in StepsOf(pre, e) : s.status = COMPLETED }
        IN /\ NewWorkflows = {lastOp.new_workflow}
           /\ workflows[lastOp.new_workflow].branch_of = pre.executions[e].workflow
           /\ NewBranches = {lastOp.new_branch}
           /\ branches[lastOp.new_branch].parent_branch = pre.executions[e].branch
           /\ NewExecutions = {ne}
           /\ executions[ne].parent_execution = e
           /\ executions[ne].workflow = lastOp.new_workflow
           /\ executions[ne].branch = lastOp.new_branch
           /\ { SnapshotContent(s) : s \in StepsOf(DB, ne) } = { SnapshotContent(s) : s \in done }
           /\ Cardinality(StepsOf(DB, ne)) = Cardinality(done)
           /\ executions[ne].current_step_index = pre.executions[e].current_step_index
           /\ EventsOf(DB, e) = Append(EventsOf(pre, e),
                                       [execution |-> e, event_type |-> "EXEC_BRANCH_CREATED",
                                        details |-> [new_execution |-> ne], created_at |-> now])

C6_Witness ==
    /\ lastOp.op = "branch_execution"
    /\ \E s \in StepsOf(pre, lastOp.exec) : s.status = COMPLETED /\ s.input_properties # <<>>
    /\ \E s \in StepsOf(pre, lastOp.exec) : s.status # COMPLETED
    /\ pre.executions[lastOp.exec].current_step_index > 0
    /\ Cardinality(StepsOf(DB, lastOp.new_exec)) = 2

(* C7: the execution returned by fork_execution has the source as parent,   *)
(* the target branch, the source's blueprint, family configuration and      *)
(* families, and has no snapshots and no ledger entries.                    *)
C7_ForkExecutionShallowClone ==
    (lastOp.op = "fork_execution" /\ ~lastOp.raised) =>
        LET e == lastOp.exec
            ne == lastOp.new_exec
        IN /\ NewExecutions = {ne}
           /\ executions[ne].parent_execution = e
           /\ executions[ne].branch = lastOp.target_branch
           /\ executions[ne].workflow = pre.executions[e].workflow
           /\ executions[ne].family_data_config = pre.executions[e].family_data_config
           /\ executions[ne].families = pre.executions[e].families
           /\ StepsOf(DB, ne) = {}
           /\ SelectionsOf(DB, ne) = {}

C7_Witness ==
    /\ lastOp.op = "fork_execution"
    /\ ~lastOp.raised
    /\ lastOp.target_branch # pre.executions[lastOp.exec].branch
    /\ StepsOf(pre, lastOp.exec) # {}
    /\ SelectionsOf(pre, lastOp.exec) # {}

(* C9: there is at most one ledger entry per (execution, branch, molecule,  *)
(* property); a selection for (molecule, P) creates or overwrites only that *)
(* entry and leaves the execution's entries for every other property and    *)
(* every other molecule unchanged.                                          *)
C9_LedgerUpsert ==
    /\ \A s1, s2 \in selections :
          (/\ s1.execution = s2.execution
           /\ s1.branch = s2.branch
           /\ s1.molecule = s2.molecule
           /\ s1.property_name = s2.property_name) => s1 = s2
    /\ lastOp.op = "select_property_variant" =>
          LET e == lastOp.exec
              Mine(s) == s.molecule = lastOp.molecule /\ s.property_name = lastOp.property
          IN /\ { s \in SelectionsOf(DB, e) : ~Mine(s) } = { s \in SelectionsOf(pre, e) : ~Mine(s) }
             /\ \E s \in SelectionsOf(DB, e) :
                   /\ Mine(s)
                   /\ s.branch = executions[e].branch
                   /\ s.data_id = lastOp.data_id
                   /\ s.data_class = lastOp.data_class

C9_Witness ==
    /\ lastOp.op = "select_property_variant"
    /\ \E s \in SelectionsOf(pre, lastOp.exec) :
          /\ s.molecule = lastOp.molecule
          /\ s.property_name = lastOp.property
          /\ s.data_id # lastOp.data_id
    /\ \E s \in SelectionsOf(pre, lastOp.exec) :
          s.molecule = lastOp.molecule /\ s.property_name # lastOp.property
    /\ \E s \in SelectionsOf(pre, lastOp.exec) : s.molecule # lastOp.molecule

(* C8: once a data record is frozen, set_value raises and leaves the value  *)
(* (on the object and in its row) unchanged, get_value keeps succeeding and *)
(* returns the value last set before the freeze, the frozen flag is never   *)
(* cleared, and a second freeze changes only timestamp and actor.           *)
C8_FreezeInvariant ==
    \A d \in DOMAIN records :
        LET cur == records[d]
            old == pre.records[d]
            mine == lastOp.data_id = d
        IN /\ old.obj.is_frozen => cur.obj.is_frozen
           /\ old.row.is_frozen => cur.row.is_frozen
           /\ (lastOp.op = "freeze" /\ mine) =>
                 /\ cur.obj.is_frozen
                 /\ get_value(cur.obj) = [ok |-> TRUE, value |-> old.last_set]
                 /\ [cur.obj EXCEPT !.frozen_at = old.obj.frozen_at,
                                    !.frozen_by = old.obj.frozen_by]
                      = [old.obj EXCEPT !.is_frozen = TRUE]
           /\ old.obj.is_frozen =>
                 /\ get_value(cur.obj).ok
                 /\ get_value(cur.obj) = get_value(old.obj)
           /\ (old.obj.is_frozen /\ lastOp.op = "set_value" /\ mine) =>
                 /\ lastOp.error = "RuntimeError"
                 /\ cur.obj.value_json = old.obj.value_json
                 /\ cur.row.value_json = old.row.value_json

C8_Witness ==
    /\ lastOp.op = "set_value"
    /\ pre.records[lastOp.data_id].obj.is_frozen
    /\ validate_value_type(records[lastOp.data_id].obj.data_class, lastOp.value)
    /\ get_value(records[lastOp.data_id].obj).value # lastOp.value
    /\ records[lastOp.data_id].obj.value_json # records[lastOp.data_id].row.value_json

HasCompleted(db, e, step_id) ==
    \E s \in db.steps : s.execution = e /\ s.step_id = step_id /\ s.status = COMPLETED

SnapshotsOfStep(db, e, step_id) == { s \in StepsOf(db, e) : s.step_id = step_id }

EventsOfStep(db, e, step_id) ==
    SelectSeq(db.events, LAMBDA ev : /\ ev.execution = e
                                     /\ "step_id" \in DOMAIN ev.details
                                     /\ ev.details.step_id = step_id)

(* C10: a Flow.run with auto_skip_completed=True creates no snapshot and no *)
(* event for a step id that already has a COMPLETED snapshot and leaves its *)
(* snapshots as they are; when every step is already COMPLETED the run      *)
(* changes nothing and does not fail, whatever the dependencies are.        *)
C10_AutoSkipNoDuplicate ==
    (lastOp.op = "run" /\ lastOp.auto_skip_completed) =>
        LET e == lastOp.exec
        IN /\ \A step_id \in StepIds :
                 HasCompleted(pre, e, step_id) =>
                     /\ SnapshotsOfStep(DB, e, step_id) = SnapshotsOfStep(pre, e, step_id)
                     /\ EventsOfStep(DB, e, step_id) = EventsOfStep(pre, e, step_id)
           /\ (\A step_id \in StepIds : HasCompleted(pre, e, step_id)) =>
                 /\ ~lastOp.raised
                 /\ DB = pre

C10_Witness ==
    /\ lastOp.op = "run"
    /\ lastOp.auto_skip_completed
    /\ HasCompleted(pre, lastOp.exec, "s0")
    /\ ~HasCompleted(pre, lastOp.exec, "s1")
    /\ HasCompleted(DB, lastOp.exec, "s1")
    /\ \E ev \in Range(EventsOf(pre, lastOp.exec)) :
          ev.event_type = "STEP_COMPLETED" /\ ev.details.step_id = "s0"

-----------------------------------------------------------------------------
(* Views of a flow run used by the properties below *)
MethodConfigured(db, e, family, data_class) ==
    LET cfg == db.executions[e].family_data_config
    IN /\ family \in DOMAIN cfg
       /\ data_class \in DOMAIN cfg[family]
       /\ cfg[family][data_class] # ""

(* some member of some family lacks a method for a required data type *)
Blocked(db, e, step_id) ==
    \E family \in db.executions[e].families, data_class \in required_data_classes(step_id) :
        db.families[family] # {} /\ ~MethodConfigured(db, e, family, data_class)

FullyConfigured(db, e, step_id) ==
    \A family \in db.executions[e].families, data_class \in required_data_classes(step_id) :
        MethodConfigured(db, e, family, data_class)

(* the step is handed to the runner and not skipped as already COMPLETED *)
NotSkipped(step_id) ==
    ~(lastOp.auto_skip_completed /\ HasCompleted(pre, lastOp.exec, step_id))

NewSnapshotsOfStep(step_id) ==
    { s \in SnapshotsOfStep(DB, lastOp.exec, step_id) : s.pk >= pre.nextPk }

LaterStepsUntouched(step_id) ==
    \A later \in StepIds :
        StepOrder(later) > StepOrder(step_id) =>
            /\ SnapshotsOfStep(DB, lastOp.exec, later) = SnapshotsOfStep(pre, lastOp.exec, later)
            /\ EventsOfStep(DB, lastOp.exec, later) = EventsOfStep(pre, lastOp.exec, later)

Cursor(db, e) ==
    <<db.executions[e].current_step, db.executions[e].current_step_index>>

(* C11: a step that is not skipped and lacks a retrieval method for a       *)
(* required data type of a populated family makes Flow.run raise before any *)
(* snapshot or event of that step exists and before any later step starts;  *)
(* with a method configured for every family and required type, the step    *)
(* (when reached and not failing) is executed to COMPLETED.                  *)
C11_DependencyGate ==
    lastOp.op = "run" =>
        \A i \in 1..Len(lastOp.trace) :
            LET step_id == lastOp.trace[i].step_id
                e == lastOp.exec
            IN /\ (NotSkipped(step_id) /\ Blocked(pre, e, step_id)) =>
                     /\ lastOp.trace[i].outcome = "RuntimeError"
                     /\ lastOp.raised
                     /\ i = Len(lastOp.trace)
                     /\ SnapshotsOfStep(DB, e, step_id) = SnapshotsOfStep(pre, e, step_id)
                     /\ EventsOfStep(DB, e, step_id) = EventsOfStep(pre, e, step_id)
                     /\ LaterStepsUntouched(step_id)
               /\ (/\ NotSkipped(step_id)
                   /\ FullyConfigured(pre, e, step_id)
                   /\ step_id \notin lastOp.failing) =>
                     /\ lastOp.trace[i].outcome = "completed"
                     /\ \E s \in NewSnapshotsOfStep(step_id) : s.status = COMPLETED

C11_Witness ==
    /\ lastOp.op = "run"
    /\ Len(lastOp.trace) = 2
    /\ lastOp.trace[1].outcome = "completed"
    /\ lastOp.trace[2].outcome = "RuntimeError"
    /\ Blocked(DB, lastOp.exec, "s1")
    /\ lastOp.raised

(* C12: when the computation of a step raises inside Flow.run, the run      *)
(* leaves exactly one new snapshot of that step, FAILED, with results       *)
(* {"error": message} and completed_at set, appends one STEP_FAILED event,  *)
(* re-raises, and starts no later step.                                     *)
C12_FailureRecordedAndRaised ==
    lastOp.op = "run" =>
        \A i \in 1..Len(lastOp.trace) :
            LET step_id == lastOp.trace[i].step_id
                e == lastOp.exec
            IN (/\ step_id \in lastOp.failing
                /\ NotSkipped(step_id)
                /\ ~Blocked(pre, e, step_id)) =>
                  /\ lastOp.raised
                  /\ i = Len(lastOp.trace)
                  /\ Cardinality(NewSnapshotsOfStep(step_id)) = 1
                  /\ \A s \in NewSnapshotsOfStep(step_id) :
                        /\ s.status = FAILED
                        /\ s.results = [error |-> "boom"]
                        /\ s.completed_at = now
                  /\ EventsOfType(DB, e, "STEP_FAILED") =
                        Append(EventsOfType(pre, e, "STEP_FAILED"),
                               [execution |-> e, event_type |-> "STEP_FAILED",
                                details |-> [step_id |-> step_id, error |-> "boom"],
                                created_at |-> now])
                  /\ LaterStepsUntouched(step_id)

C12_Witness ==
    /\ lastOp.op = "run"
    /\ lastOp.failing = {"s0"}
    /\ Len(lastOp.trace) = 1
    /\ lastOp.trace[1].outcome = "failed"
    /\ ~Blocked(pre, lastOp.exec, "s1")
    /\ ~HasCompleted(pre, lastOp.exec, "s1")
    /\ now > 0

(* C13: a run that ends in a FAILED step leaves current_step and            *)
(* current_step_index as they were when that step was started (the cursor   *)
(* of the last step completed before it, else the cursor before the run),   *)
(* and a step whose only snapshots are FAILED is not skipped by a later run.*)
C13_FailedStepKeepsCursor ==
    lastOp.op = "run" =>
        \A i \in 1..Len(lastOp.trace) :
            LET step_id == lastOp.trace[i].step_id
                e == lastOp.exec
                done == { j \in 1..(i - 1) : lastOp.trace[j].outcome = "completed" }
                last == CHOOSE j \in done : \A k \in done : k <= j
            IN /\ lastOp.trace[i].outcome = "failed" =>
                     Cursor(DB, e) =
                        IF done = {} THEN Cursor(pre, e)
                        ELSE <<lastOp.trace[last].step_id,
                               StepOrder(lastOp.trace[last].step_id) + 1>>
               /\ ~HasCompleted(pre, e, step_id) => lastOp.trace[i].outcome # "skipped"

C13_Witness ==
    /\ lastOp.op = "run"
    /\ lastOp.auto_skip_completed
    /\ Len(lastOp.trace) = 2
    /\ lastOp.trace[1].outcome = "skipped"
    /\ lastOp.trace[2].outcome = "failed"
    /\ \E s \in SnapshotsOfStep(pre, lastOp.exec, "s1") : s.status = FAILED
    /\ Cursor(DB, lastOp.exec) = <<"s0", 1>>


-----------------------------------------------------------------------------
(* Views of the step API used by the properties below *)
RowByPk(db, pk) == CHOOSE s \in db.steps : s.pk = pk

CursorsKept == \A e \in DOMAIN pre.executions : Cursor(DB, e) = Cursor(pre, e)

(* C14: complete_step(stepExec, results) leaves stepExec COMPLETED with the   *)
(* given results, sets the execution's current_step to the step id and       *)
(* current_step_index to stepExec.order + 1, and appends one STEP_COMPLETED  *)
(* event; start_step, mark_failed, select_property_variant, fork_execution,  *)
(* branch_execution, rewind_to and log_event leave current_step and          *)
(* current_step_index of every execution that already existed unchanged.     *)
C14_CompleteStepAdvancesCursor ==
    /\ lastOp.op = "complete_step" =>
        LET old == RowByPk(pre, lastOp.step_pk)
            row == RowByPk(DB, lastOp.step_pk)
            e == lastOp.exec
        IN /\ row = [old EXCEPT !.status = COMPLETED, !.results = [ok |-> TRUE],
                                !.completed_at = now]
           /\ steps \ {row} = pre.steps \ {old}
           /\ executions[e].current_step = old.step_id
           /\ executions[e].current_step_index = old.order + 1
           /\ \A o \in DOMAIN pre.executions \ {e} : Cursor(DB, o) = Cursor(pre, o)
           /\ events = Append(pre.events,
                              [execution |-> e, event_type |-> "STEP_COMPLETED",
                               details |-> [step_id |-> old.step_id], created_at |-> now])
    /\ lastOp.op \in {"start_step", "mark_failed", "select_property_variant", "fork_execution",
                      "branch_execution", "rewind_to", "log_event"} => CursorsKept

C14_Witness ==
    /\ lastOp.op = "complete_step"
    /\ Cursor(DB, lastOp.exec) # Cursor(pre, lastOp.exec)
    /\ RowByPk(pre, lastOp.step_pk).status = RUNNING


C16_TerminalStatusKept ==
    \A old \in pre.steps :
        old.status \in {COMPLETED, FAILED} =>
            \E row \in steps : row.pk = old.pk /\ row.status = old.status


(* C17: get_selected_property(molecule, P) on execution E returns the record *)
(* of the ledger entry for (E, E's branch, molecule, P) when one exists;     *)
(* an execution just created by fork_execution, branch_execution or          *)
(* rewind_to, which has not re-selected, resolves every (molecule, P) to the *)
(* choice its source execution resolves it to.                               *)
C17_SelectedPropertyFallsBack ==
    /\ \A e \in DOMAIN executions, molecule \in Molecules, property_name \in Properties :
        \A ds \in SelectionsOf(DB, e) :
            (/\ ds.branch = executions[e].branch
             /\ ds.molecule = molecule
             /\ ds.property_name = property_name)
            => get_selected_property(DB, e, molecule, property_name) = {VariantById(ds.data_id)}
    /\ (/\ lastOp.op \in {"fork_execution", "branch_execution", "rewind_to"}
        /\ lastOp.new_exec \in NewExecutions)
       => \A molecule \in Molecules, property_name \in Properties :
            get_selected_property(DB, lastOp.new_exec, molecule, property_name)
                = get_selected_property(DB, lastOp.exec, molecule, property_name)


(* C18: no branching operation fails because a generated id is already       *)
(* taken: a selection that auto-forks in the same clock second as an earlier *)
(* one still succeeds and produces a new branch and a new execution under    *)
(* distinct ids.                                                             *)
C18_NoIdCollisionFailure ==
    lastOp.op = "select_property_variant" =>
        /\ ~lastOp.raised
        /\ lastOp.forked => /\ lastOp.new_branch \in NewBranches
                            /\ lastOp.new_exec \in NewExecutions

(* C19: a branching operation that raises leaves nothing of what it was      *)
(* creating: no new blueprint, branch, execution, cloned snapshot or cloned  *)
(* selection is visible afterwards, and every branch created by a call has   *)
(* the execution created with it.                                            *)
C19_BranchingAllOrNothing ==
    lastOp.raised =>
        /\ NewWorkflows = {}
        /\ NewBranches = {}
        /\ NewExecutions = {}
        /\ steps = pre.steps
        /\ \A s \in selections : s.execution \in DOMAIN pre.executions


(* C20 as stated: fork_execution appends its FORK event to the event log of  *)
(* the source execution, and not to the log of the execution it creates.     *)
C20_ForkLoggedOnSource ==
    (lastOp.op = "fork_execution" /\ ~lastOp.raised) =>
        /\ EventsOf(DB, lastOp.exec)
              = Append(EventsOf(pre, lastOp.exec),
                       [execution |-> lastOp.exec, event_type |-> "FORK",
                        details |-> [from |-> lastOp.exec, to_branch |-> lastOp.target_branch],
                        created_at |-> now])
        /\ EventsOfType(DB, lastOp.new_exec, "FORK") = <<>>

(* C20: fork_execution appends exactly one event, a FORK event naming the    *)
(* source execution and the target branch, to the log of the execution it    *)
(* creates; the log of the source execution is left as it was.               *)
C20_ForkLoggedOnClone ==
    (lastOp.op = "fork_execution" /\ ~lastOp.raised) =>
        /\ events = Append(pre.events,
                           [execution |-> lastOp.new_exec, event_type |-> "FORK",
                            details |-> [from |-> lastOp.exec,
                                         to_branch |-> lastOp.target_branch],
                            created_at |-> now])
        /\ EventsOf(DB, lastOp.exec) = EventsOf(pre, lastOp.exec)
        /\ lastOp.new_exec # lastOp.exec

C20_Witness ==
    /\ lastOp.op = "fork_execution"
    /\ ~lastOp.raised
    /\ EventsOf(pre, lastOp.exec) # <<>>
    /\ Len(EventsOf(DB, lastOp.new_exec)) = 1


-----------------------------------------------------------------------------
(* the suffixed candidates a fork tries after new_branch_id itself *)
Suffixed(new_branch_id, n) == Append(new_branch_id, ToString(n))

(* C21: WorkflowBranch.fork returns a new branch whose parent_branch is the  *)
(* forked branch, whose blueprint is the parent's and whose preferences are  *)
(* the parent's with the overrides applied, the override winning per key;    *)
(* the branches that existed are unchanged; a new_branch_id already in use   *)
(* is replaced by new_branch_id followed by the smallest unused counter      *)
(* starting at 1, so no existing branch is overwritten.                      *)
C21_ForkBranch ==
    lastOp.op = "fork" =>
        LET b == lastOp.target_branch
            nb == lastOp.new_branch
            requested == lastOp.new_branch_id
            overrides == lastOp.preference_overrides
            parent == pre.branches[b].data_selection_preferences
            prefs == branches[nb].data_selection_preferences
        IN /\ nb \notin DOMAIN pre.branches
           /\ DOMAIN branches = DOMAIN pre.branches \cup {nb}
           /\ \A x \in DOMAIN pre.branches : branches[x] = pre.branches[x]
           /\ branches[nb].parent_branch = b
           /\ branches[nb].workflow = pre.branches[b].workflow
           /\ DOMAIN prefs = DOMAIN parent \cup DOMAIN overrides
           /\ \A k \in DOMAIN overrides : prefs[k] = overrides[k]
           /\ \A k \in DOMAIN parent \ DOMAIN overrides : prefs[k] = parent[k]
           /\ IF requested \notin DOMAIN pre.branches
              THEN nb = requested
              ELSE \E n \in 1..(MaxForkOps + 1) :
                    /\ nb = Suffixed(requested, n)
                    /\ \A j \in 1..(n - 1) : Suffixed(requested, j) \in DOMAIN pre.branches

C21_Witness ==
    /\ lastOp.op = "fork"
    /\ lastOp.new_branch = Suffixed(lastOp.new_branch_id, 2)
    /\ "logp" \in DOMAIN lastOp.preference_overrides
    /\ "logp" \in DOMAIN pre.branches[lastOp.target_branch].data_selection_preferences


(* the ledger entry of (e, e's branch, molecule, property_name), if any *)
ExactEntries(db, e, molecule, property_name) ==
    { s \in db.selections : /\ s.execution = e
                            /\ s.branch = db.executions[e].branch
                            /\ s.molecule = molecule
                            /\ s.property_name = property_name }

(* the call re-selected the record that was already selected *)
Reselected ==
    \E s \in ExactEntries(pre, lastOp.exec, lastOp.molecule, lastOp.property) :
        s.data_id = lastOp.data_id /\ s.data_class = lastOp.data_class

(* C22: every select_property_variant call appends exactly one               *)
(* DATA_SELECTION_CHANGED event to the execution and then runs the auto-fork *)
(* check, also when the record selected is the one already selected: each    *)
(* call on a property that a COMPLETED step depends on creates a fork.       *)
C22_SelectAlwaysLogsAndForks ==
    lastOp.op = "select_property_variant" =>
        LET e == lastOp.exec
        IN /\ EventsOfType(DB, e, "DATA_SELECTION_CHANGED")
                = Append(EventsOfType(pre, e, "DATA_SELECTION_CHANGED"),
                         [execution |-> e, event_type |-> "DATA_SELECTION_CHANGED",
                          details |-> [molecule |-> lastOp.molecule,
                                       property |-> lastOp.property,
                                       data_class |-> lastOp.data_class,
                                       data_id |-> lastOp.data_id,
                                       created |-> ExactEntries(pre, e, lastOp.molecule,
                                                                lastOp.property) = {}],
                          created_at |-> now])
           /\ impacted_exists(pre, e, lastOp.property) =>
                /\ lastOp.forked
                /\ Cardinality(NewExecutions) = 1
                /\ Cardinality(NewBranches) = 1


(* C23: events are append-only, so the event list only grows, and timeline() *)
(* returns the events of an execution in exactly the order in which they     *)
(* were logged, also for events logged within one operation or at the same   *)
(* clock instant.                                                            *)
C23_EventsAppendOnlyInLogOrder ==
    /\ IsPrefix(pre.events, events)
    /\ lastOp.exec \in DOMAIN executions =>
        LET logged == EventsOf(DB, lastOp.exec)
        IN timeline(DB, lastOp.exec)
             = { [k \in 1..Len(logged) |-> [event_type |-> logged[k].event_type,
                                            details |-> logged[k].details,
                                            created_at |-> logged[k].created_at]] }


(* the family_data_config of the execution at the moment the k-th step of   *)
(* the last run was started: the one before the run, with what the steps    *)
(* executed earlier in the run registered                                   *)
ConfigAtStart(k) ==
    LET e == lastOp.exec
        earlier == { lastOp.trace[j].step_id : j \in 1..(k - 1) }
        IsRun(step_id) == \E j \in 1..(k - 1) :
                            /\ lastOp.trace[j].step_id = step_id
                            /\ lastOp.trace[j].outcome \in {"completed", "failed"}
    IN IF \E step_id \in earlier : IsRun(step_id) /\ step_id \in lastOp.registering
       THEN _process_step(pre, e, CHOOSE step_id \in lastOp.registering : TRUE,
                          lastOp.registering).executions[e].family_data_config
       ELSE pre.executions[e].family_data_config

(* C24: the data_retrieval_methods stored in a snapshot equal the            *)
(* execution's family_data_config at the moment the step was started, and no *)
(* later set_data_retrieval_method on the execution, before or after the     *)
(* step is completed or failed, changes the stored map.                      *)
C24_RetrievalMethodsFrozen ==
    /\ \A old \in pre.steps :
        \E row \in steps : /\ row.pk = old.pk
                           /\ row.data_retrieval_methods = old.data_retrieval_methods
    /\ lastOp.op = "run" =>
        \A k \in 1..Len(lastOp.trace) :
            lastOp.trace[k].outcome \in {"completed", "failed"} =>
                \A row \in NewSnapshotsOfStep(lastOp.trace[k].step_id) :
                    row.data_retrieval_methods = ConfigAtStart(k)


(* C25: the input_data_snapshot of a snapshot is the family composition      *)
(* (family id -> member molecules) at the moment the step was started; later *)
(* membership changes, complete_step and mark_failed never change it, and    *)
(* the step's computation receives exactly this snapshot as its input.       *)
C25_InputSnapshotFrozen ==
    /\ \A old \in pre.steps :
        \E row \in steps : /\ row.pk = old.pk
                           /\ row.input_data_snapshot = old.input_data_snapshot
    /\ lastOp.op = "run" =>
        \A k \in 1..Len(lastOp.trace) :
            lastOp.trace[k].outcome \in {"completed", "failed"} =>
                \A row \in NewSnapshotsOfStep(lastOp.trace[k].step_id) :
                    /\ row.input_data_snapshot
                         = [f \in pre.executions[lastOp.exec].families |-> pre.families[f]]
                    /\ lastOp.trace[k].outcome = "completed"
                         => row.results.input_data = row.input_data_snapshot

C25_Witness ==
    /\ lastOp.op = "members"
    /\ \E row \in steps :
        /\ row.status \in {COMPLETED, FAILED}
        /\ "fam1" \in DOMAIN row.input_data_snapshot
        /\ row.input_data_snapshot["fam1"] # {}
        /\ row.input_data_snapshot["fam1"] # families["fam1"]


(* C26: set_value(v) on an unfrozen record with v not of the declared native *)
(* type fails with the type error (ValueError) and leaves payload and        *)
(* native-type tag unchanged; on a frozen record it fails with the immutable *)
(* error (RuntimeError) whatever the type of v and changes nothing; in the   *)
(* remaining case it stores the serialized value and refreshes the tag.      *)
C26_SetValueErrors ==
    lastOp.op = "set_value" =>
        LET d == lastOp.data_id
            old == pre.records[d]
            cur == records[d]
            well_typed == validate_value_type(old.obj.data_class, lastOp.value)
        IN /\ \A o \in DOMAIN pre.records \ {d} : records[o] = pre.records[o]
           /\ cur.row = old.row
           /\ old.obj.is_frozen =>
                /\ lastOp.error = "RuntimeError"
                /\ cur = old
           /\ (~old.obj.is_frozen /\ ~well_typed) =>
                /\ lastOp.error = "ValueError"
                /\ cur = old
           /\ (~old.obj.is_frozen /\ well_typed) =>
                /\ lastOp.error = ""
                /\ cur.obj = [old.obj EXCEPT
                                !.value_json = json_dumps(lastOp.value),
                                !.native_type = get_native_type(old.obj.data_class)]

C26_Witness ==
    /\ lastOp.op = "set_value"
    /\ pre.records[lastOp.data_id].obj.is_frozen
    /\ ~validate_value_type(pre.records[lastOp.data_id].obj.data_class, lastOp.value)
    /\ lastOp.error = "RuntimeError"


-----------------------------------------------------------------------------
(* Views of the last get_or_create_data call *)
Matching(db) ==
    { d \in DOMAIN db.records :
        /\ db.records[d].row.molecule = lastOp.molecule
        /\ db.records[d].row.data_class = lastOp.data_class
        /\ lastOp.user_tag # NoTag => db.records[d].row.user_tag = lastOp.user_tag }

Retrievable ==
    /\ lastOp.method = "user_input"
    /\ "value" \in DOMAIN lastOp.config
    /\ lastOp.data_class = "LogPData" => float(lastOp.config.value).ok

Repeated ==
    get_or_create_data(DB, now, lastOp.data_id, lastOp.molecule, lastOp.data_class,
                       lastOp.method, lastOp.config, lastOp.user_tag)

ReturnsExisting ==
    /\ lastOp.error = ""
    /\ ~lastOp.created
    /\ records = pre.records
    /\ lastOp.instances # {}
    /\ lastOp.instances \subseteq Matching(pre)

CreatesOne ==
    /\ lastOp.error = ""
    /\ lastOp.created
    /\ DOMAIN records = DOMAIN pre.records \cup {lastOp.data_id}
    /\ lastOp.data_id \notin DOMAIN pre.records
    /\ \A d \in DOMAIN pre.records : records[d] = pre.records[d]
    /\ lastOp.instances = {lastOp.data_id}
    /\ Matching(DB) = {lastOp.data_id}

RepeatFindsSame ==
    /\ ~Repeated.created
    /\ Repeated.error = ""
    /\ Repeated.db = DB
    /\ Repeated.instances = lastOp.instances

(* C27 as stated: get_or_create_data creates no record and returns           *)
(* (existing, False) whenever a record of that type (and tag, when given)    *)
(* exists for the molecule; otherwise it creates exactly one record and      *)
(* returns (record, True); repeating the call returns the same record with   *)
(* created = False and adds no record.                                       *)
C27_GetOrCreateAlwaysYields ==
    lastOp.op = "get_or_create_data" =>
        /\ IF Matching(pre) # {} THEN ReturnsExisting ELSE CreatesOne
        /\ RepeatFindsSame

(* C27: as above when a record exists; when none exists and retrieval        *)
(* succeeds (supported method, config with a value the type accepts) exactly *)
(* one record is created and returned with created = True, and repeating the *)
(* call returns it with created = False; when none exists and retrieval      *)
(* fails, the call raises ValueError and creates nothing.                    *)
C27_GetOrCreateData ==
    lastOp.op = "get_or_create_data" =>
        IF Matching(pre) # {} THEN ReturnsExisting /\ RepeatFindsSame
        ELSE IF Retrievable THEN CreatesOne /\ RepeatFindsSame
        ELSE /\ lastOp.error = "ValueError"
             /\ records = pre.records
             /\ lastOp.instances = {}

C27_Witness ==
    /\ lastOp.op = "get_or_create_data"
    /\ lastOp.created
    /\ lastOp.user_tag # NoTag
    /\ \E d \in DOMAIN pre.records : pre.records[d].row.data_class = lastOp.data_class


(* the blueprint without branch_of reached from w along branch_of *)
RECURSIVE RootOf(_, _)
RootOf(db, w) ==
    IF db.workflows[w].branch_of = NoId THEN w ELSE RootOf(db, db.workflows[w].branch_of)

(* C28: a blueprint created by Workflow.branch has the blueprint it was      *)
(* branched from as branch_of and the root of its tree (a blueprint without  *)
(* branch_of) as root_branch; the branched blueprints of one tree share      *)
(* their root_branch at any depth, and later branch calls change neither     *)
(* field of an existing blueprint.                                           *)
C28_BlueprintTree ==
    /\ \A w \in DOMAIN pre.workflows : w \in DOMAIN workflows /\ workflows[w] = pre.workflows[w]
    /\ \A w \in DOMAIN workflows :
        workflows[w].branch_of # NoId =>
            /\ workflows[w].branch_of \in DOMAIN workflows
            /\ workflows[w].root_branch = RootOf(DB, w)
            /\ workflows[workflows[w].root_branch].branch_of = NoId
    /\ lastOp.op = "branch" =>
        /\ NewWorkflows = {lastOp.new_workflow}
        /\ workflows[lastOp.new_workflow].branch_of = lastOp.workflow

C28_Witness ==
    /\ lastOp.op = "branch"
    /\ pre.workflows[lastOp.workflow].branch_of # NoId
    /\ workflows[lastOp.new_workflow].root_branch # lastOp.workflow


(* the steps a run limited to until_step hands to the runner when nothing    *)
(* raises: those ordered before until_step, then until_step itself unless it *)
(* already has a COMPLETED snapshot                                          *)
StepsUpTo(until_step) ==
    SelectSeq(FlowSteps,
              LAMBDA step_id :
                \/ StepOrder(step_id) < StepOrder(until_step)
                \/ step_id = until_step /\ ~HasCompleted(pre, lastOp.exec, until_step))

TraceSteps == [k \in 1..Len(lastOp.trace) |-> lastOp.trace[k].step_id]

(* C29: Flow.run(until_step=S) starts no step ordered after S: it stops      *)
(* right after S has run, and when S already has a COMPLETED snapshot it     *)
(* stops without running S again, also with auto_skip_completed=False; the   *)
(* steps ordered before S are skipped or executed by the normal rules.       *)
C29_UntilStep ==
    (lastOp.op = "run" /\ lastOp.until_step # "") =>
        LET S == lastOp.until_step
            e == lastOp.exec
        IN /\ LaterStepsUntouched(S)
           /\ IsPrefix(TraceSteps, StepsUpTo(S))
           /\ ~lastOp.raised => TraceSteps = StepsUpTo(S)
           /\ HasCompleted(pre, e, S) => NewSnapshotsOfStep(S) = {}
           /\ \A k \in 1..Len(lastOp.trace) :
                LET step_id == lastOp.trace[k].step_id
                IN /\ lastOp.trace[k].outcome = "skipped"
                        <=> (lastOp.auto_skip_completed /\ HasCompleted(pre, e, step_id))
                   /\ lastOp.trace[k].outcome = "skipped" => NewSnapshotsOfStep(step_id) = {}
                   /\ lastOp.trace[k].outcome \in {"completed", "failed"}
                        => Cardinality(NewSnapshotsOfStep(step_id)) = 1

C29_Witness ==
    /\ lastOp.op = "run"
    /\ lastOp.until_step = "s0"
    /\ ~lastOp.auto_skip_completed
    /\ HasCompleted(pre, lastOp.exec, "s0")
    /\ ~HasCompleted(pre, lastOp.exec, "s1")
    /\ lastOp.trace = <<>>
    /\ steps = pre.steps


(* C30: can_execute(execution) is true exactly when every (associated       *)
(* family, required data type) pair has a configured retrieval method, also *)
(* for an associated family that currently has no members; it is always     *)
(* true for a step with no required data types.                             *)
C30_CanExecuteExactly ==
    \A e \in DOMAIN executions : \A step_id \in StepIds :
        /\ can_execute(DB, e, step_id) <=> FullyConfigured(DB, e, step_id)
        /\ required_data_classes(step_id) = {} => can_execute(DB, e, step_id)


(* the trace entries of the last run whose step was started *)
Started(k) == lastOp.trace[k].outcome \in {"completed", "failed"}

(* C31: within one Flow.run the steps are handled strictly in ascending      *)
(* order: a step is started only when every step of the flow with a smaller  *)
(* order already has a COMPLETED snapshot on the execution, because it was   *)
(* skipped as completed or was completed earlier in this run.                *)
C31_AscendingOrder ==
    lastOp.op = "run" =>
        /\ \A j, k \in 1..Len(lastOp.trace) :
              j < k => StepOrder(lastOp.trace[j].step_id) < StepOrder(lastOp.trace[k].step_id)
        /\ \A k \in 1..Len(lastOp.trace) :
              Started(k) =>
                \A earlier \in StepIds :
                    StepOrder(earlier) < StepOrder(lastOp.trace[k].step_id) =>
                        \E j \in 1..(k - 1) :
                            /\ lastOp.trace[j].step_id = earlier
                            /\ \/ /\ lastOp.trace[j].outcome = "skipped"
                                  /\ HasCompleted(pre, lastOp.exec, earlier)
                               \/ /\ lastOp.trace[j].outcome = "completed"
                                  /\ \E s \in NewSnapshotsOfStep(earlier) :
                                        /\ s.status = COMPLETED
                                        /\ \A later \in NewSnapshotsOfStep(lastOp.trace[k].step_id) :
                                              s.pk < later.pk

C31_Witness ==
    /\ lastOp.op = "run"
    /\ Len(lastOp.trace) = 2
    /\ lastOp.trace[1].step_id = "s0"
    /\ lastOp.trace[1].outcome = "completed"
    /\ Started(2)
    /\ ~HasCompleted(pre, lastOp.exec, "s0")


(* what the call set_data_retrieval_method(family_id, data_class_name, .) *)
(* is about                                                               *)
SameExceptSet(cfg, old) ==
    \A f \in FamilyIds, c \in DataClassNames :
        (f # lastOp.family_id \/ c # lastOp.data_class) =>
            /\ (f \in DOMAIN cfg /\ c \in DOMAIN cfg[f]) <=> (f \in DOMAIN old /\ c \in DOMAIN old[f])
            /\ (f \in DOMAIN old /\ c \in DOMAIN old[f]) => cfg[f][c] = old[f][c]

(* C32: after fork_execution or branch_execution the family configurations  *)
(* of source and new execution are independent: set_data_retrieval_method   *)
(* on one of them never changes what get_data_retrieval_method returns on   *)
(* the other, nor what is later persisted on the other.                     *)
C32_ConfigsIndependent ==
    (lastOp.op = "set_data_retrieval_method" /\ objects # NoObjects) =>
        /\ \A o \in DOMAIN pre.objects.refs \ {lastOp.exec} :
              /\ \A f \in FamilyIds, c \in DataClassNames :
                    get_data_retrieval_method_held(DB, o, f, c)
                        = get_data_retrieval_method_held(pre, o, f, c)
              /\ executions[o].family_data_config = pre.executions[o].family_data_config
        /\ SameExceptSet(executions[lastOp.exec].family_data_config,
                         pre.executions[lastOp.exec].family_data_config)


(* C33: after set_value(v) succeeds on an unfrozen record and the record is *)
(* then frozen with freeze(), the persisted record holds v: get_value() on  *)
(* the record re-read from storage returns v, the same as the in-memory     *)
(* record.                                                                  *)
C33_FrozenValuePersisted ==
    (lastOp.op = "freeze" /\ ~pre.records[lastOp.data_id].obj.is_frozen) =>
        LET cur == records[lastOp.data_id]
        IN /\ get_value(cur.row) = [ok |-> TRUE, value |-> cur.last_set]
           /\ get_value(cur.row) = get_value(cur.obj)


(* C34: every Data Selection's branch is the branch of its execution, in    *)
(* every state reachable by selections, auto-forks, fork_execution,         *)
(* branch_execution and rewind_to; no execution owns a ledger entry         *)
(* recorded under a different branch.                                       *)
C34_LedgerOnOwnBranch ==
    \A sel \in selections :
        /\ sel.execution \in DOMAIN executions
        /\ sel.branch = executions[sel.execution].branch

C34_Witness ==
    /\ lastOp.op \in {"fork_execution", "branch_execution", "rewind_to"}
    /\ ~lastOp.raised
    /\ \E sel \in selections :
          /\ sel.execution # <<"exec">>
          /\ executions[sel.execution].parent_execution = <<"exec">>
          /\ executions[sel.execution].branch # executions[<<"exec">>].branch
          /\ sel.execution \in DOMAIN pre.executions


(* C35: for every execution, current_step_index is 0 or equals order + 1 of *)
(* one of its COMPLETED snapshots, for executions advanced by complete_step *)
(* and for executions created by auto-fork, branch_execution and            *)
(* rewind_to(N) for any N, also an N above every completed order or         *)
(* matching no step.                                                        *)
C35_CursorAtCompletedStep ==
    \A e \in DOMAIN executions :
        \/ executions[e].current_step_index = 0
        \/ \E s \in steps : /\ s.execution = e
                            /\ s.status = COMPLETED
                            /\ executions[e].current_step_index = s.order + 1


(* the snapshots the last call created *)
StartedInCall == { s \in steps : s.pk >= pre.nextPk }

LoggedOnSource ==
    SelectSeq(SubSeq(events, Len(pre.events) + 1, Len(events)),
              LAMBDA ev : ev.execution = lastOp.exec)

EventTypes(evs) == [k \in 1..Len(evs) |-> evs[k].event_type]

(* C37: in the source execution's event log the DATA_SELECTION_CHANGED     *)
(* event of a selection call precedes the AUTO_FORK event that call        *)
(* triggers, and for rewind_to the EXEC_BRANCH_CREATED event precedes the  *)
(* REWIND event; every AUTO_FORK and REWIND event is logged only after the *)
(* branch and execution it names exist, and names exactly the ids that     *)
(* were created.                                                           *)
C37_EventOrderAndIds ==
    /\ (lastOp.op = "select_property_variant" /\ lastOp.forked) =>
          /\ EventTypes(LoggedOnSource) = <<"DATA_SELECTION_CHANGED", "AUTO_FORK">>
          /\ LoggedOnSource[1].created_at <= LoggedOnSource[2].created_at
          /\ events[Len(events)] = LoggedOnSource[2]
          /\ NewExecutions = {LoggedOnSource[2].details.new_execution}
          /\ NewBranches = {LoggedOnSource[2].details.new_branch}
          /\ executions[LoggedOnSource[2].details.new_execution].branch
                = LoggedOnSource[2].details.new_branch
          /\ LoggedOnSource[2].details.property = lastOp.property
    /\ (lastOp.op = "select_property_variant" /\ ~lastOp.forked) =>
          \A k \in 1..Len(LoggedOnSource) : LoggedOnSource[k].event_type # "AUTO_FORK"
    /\ lastOp.op = "rewind_to" =>
          /\ EventTypes(LoggedOnSource) = <<"EXEC_BRANCH_CREATED", "REWIND">>
          /\ LoggedOnSource[1].created_at <= LoggedOnSource[2].created_at
          /\ events[Len(events)] = LoggedOnSource[2]
          /\ NewExecutions = {LoggedOnSource[2].details.new_execution}
          /\ LoggedOnSource[1].details.new_execution = LoggedOnSource[2].details.new_execution
          /\ LoggedOnSource[2].details.from_execution = lastOp.exec
          /\ LoggedOnSource[2].details.rewind_to = lastOp.step_order
          /\ executions[LoggedOnSource[2].details.new_execution].branch \in NewBranches
    /\ \A k \in 1..Len(events) :
          /\ events[k].event_type = "AUTO_FORK" =>
                /\ events[k].details.new_execution \in DOMAIN executions
                /\ events[k].details.new_branch \in DOMAIN branches
                /\ executions[events[k].details.new_execution].parent_execution
                      = events[k].execution
          /\ events[k].event_type = "REWIND" =>
                /\ events[k].details.new_execution \in DOMAIN executions
                /\ executions[events[k].details.new_execution].parent_execution
                      = events[k].execution

C37_Witness ==
    /\ lastOp.op = "rewind_to"
    /\ \E k \in 1..Len(pre.events) :
          /\ pre.events[k].event_type = "AUTO_FORK"
          /\ pre.events[k].details.new_execution = lastOp.exec


(* following the parent link f from node n reaches a root (a node whose   *)
(* link is empty) through nodes of the table, never coming back to a node *)
(* already passed                                                         *)
RECURSIVE ReachesRoot(_, _, _)
ReachesRoot(f, n, passed) ==
    IF f[n] = NoId THEN TRUE
    ELSE IF f[n] \notin DOMAIN f \/ f[n] \in passed \cup {n} THEN FALSE
    ELSE ReachesRoot(f, f[n], passed \cup {n})

Forest(f) == \A n \in DOMAIN f : ReachesRoot(f, n, {})

(* C38: the parent links form forests: following parent_execution from    *)
(* any execution, parent_branch from any branch or branch_of from any     *)
(* blueprint reaches a root in finitely many steps without revisiting a   *)
(* node, after any sequence of fork, branch, fork_execution,              *)
(* branch_execution, rewind_to and auto-fork operations; every execution  *)
(* these operations create has the execution it was derived from as       *)
(* parent_execution.                                                      *)
C38_ParentForests ==
    /\ Forest([e \in DOMAIN executions |-> executions[e].parent_execution])
    /\ Forest([b \in DOMAIN branches |-> branches[b].parent_branch])
    /\ Forest([w \in DOMAIN workflows |-> workflows[w].branch_of])
    /\ lastOp.op \in {"select_property_variant", "fork_execution", "branch_execution",
                      "rewind_to"} =>
          \A n \in NewExecutions : executions[n].parent_execution = lastOp.exec

C38_Witness ==
    /\ lastOp.op \in {"fork_execution", "branch_execution", "rewind_to"}
    /\ \E n \in NewExecutions :
          /\ executions[n].parent_execution # <<"exec">>
          /\ executions[executions[n].parent_execution].parent_execution = <<"exec">>
          /\ branches[executions[n].branch].parent_branch # NoId


(* the table the last create inserted into *)
IdsOf(db, kind) ==
    IF kind = "fork" THEN DOMAIN db.branches
    ELSE IF kind = "branch" THEN DOMAIN db.workflows
    ELSE DOMAIN db.executions

(* C39: the check-then-create id loops (WorkflowBranch.fork,               *)
(* Workflow.branch, branch_execution) avoid collisions only under          *)
(* serialized access: when two calls requesting the same id interleave     *)
(* between the existence check and the create, both can choose the same    *)
(* candidate id, so one create hits the uniqueness constraint instead of   *)
(* being disambiguated; with serialized calls this never happens.          *)
C39_CollisionOnlyWhenInterleaved ==
    lastOp.op = "create" =>
        LET call == pre.calls[lastOp.proc]
        IN /\ lastOp.raised => /\ call.interleaved
                               /\ call.candidate \in IdsOf(pre, call.kind)
                               /\ IdsOf(DB, call.kind) = IdsOf(pre, call.kind)
           /\ ~call.interleaved => ~lastOp.raised
           /\ ~lastOp.raised => /\ call.candidate \notin IdsOf(pre, call.kind)
                                /\ IdsOf(DB, call.kind)
                                     = IdsOf(pre, call.kind) \cup {call.candidate}

C39_Witness ==
    /\ lastOp.op = "create"
    /\ lastOp.raised
    /\ lastOp.error = "IntegrityError"
    /\ pre.calls[lastOp.proc].interleaved
    /\ \E q \in Procs \ {lastOp.proc} : pre.calls[q].pc = "idle"

====
